---- MODULE Spec2Model ----
(***************************************************************************)
(* Verification model of pie-modules:                                      *)
(*   - PointerNetworkTaskModuleForEnd2EndRE (target grammar, decoding of   *)
(*     generated id streams, constraint masks, target encoding)            *)
(*   - document/processing/tokenization.py (character <-> token spans)     *)
(* Python lists are TLA+ sequences (1-based); target ids and positions     *)
(* keep their Python values (0-based).                                     *)
(***************************************************************************)
EXTENDS Integers, Sequences, FiniteSets, TLC

VARIABLES
    labels_per_layer,   \* prepared attribute: layer name -> sorted labels
    pc,                 \* position of the running operation
    label_ids,          \* decode_relations: the argument
    pos,                \* decode_relations: number of ids the for loop consumed
    current_encoding,   \* decode_relations: accumulator
    encodings,          \* decode_relations: decoded relations
    errors,             \* decode_relations: counts per reason code
    input_len,          \* build_constraints: the argument input_len
    target_ids,         \* build_constraints: the argument target_ids
    constraints,        \* build_constraints: the returned matrix (list of rows)
    relation,           \* relation_encoder_decoder: the annotation to encode
    encoded,            \* relation_encoder_decoder.encode: the result
    decoded,            \* decode_relations of the encoding: the result
    text_len,           \* text document: len(doc.text)
    token_offset_mapping, \* (char_start, char_end) per token
    strict_span_conversion, \* argument of text_based_document_to_token_based
    doc_spans,          \* text document: the text-targeting span layer
    token_doc,          \* result of text_based_document_to_token_based
    text_doc,           \* result of token_based_document_to_text_based
    create_constraints, \* constructor argument of the task module
    log_first_n_examples, \* counter of the task module, shared by all calls
    task_encodings,     \* batch: metadata["tokenized_document"] of each task encoding
    task_targets,       \* batch: targets of each task encoding (None: no target)
    task_yielded,       \* batch: what create_annotations_from_output yielded
    cursor,             \* position of the batch loop
    partition_layer,    \* tokenize_document: the partitions of the document, or None
    partition_idx,      \* tokenize_document: position of the loop over the partitions
    tokenized_texts,    \* tokenize_document: per partition, the offsets of its encodings
    td_result,          \* tokenize_document: result, the token documents made so far
    added_annotations,  \* tokenize_document: annotations carried over so far
    text,               \* find_token_offset_mapping: the characters of the text
    tokens,             \* find_token_offset_mapping: the tokens
    start,              \* find_token_offset_mapping: the cursor
    documents,          \* prepare: the labels of the layers of the documents
    model_output,       \* collate / unbatch_output: the padded tensor of label ids
    task_outputs,       \* unbatch_output: the label sequence of every batch item
    decoded_annotations, \* decode_annotations: the decoded layers
    input_ids,          \* generation: bos and the ids generated so far
    remaining,          \* the ids handed to _build_constraint as previous_ids
    constraint,         \* the mask _build_constraint returned
    training,           \* SimplePointerNetworkModel: the training flag of the module
    is_training,        \* predict: the flag saved on entry
    stage,              \* step: the stage of the call
    batch_idx,          \* step: the index of the batch
    metric_splits,      \* constructor argument: the stages that have metrics
    use_prediction_for_metrics,\* the stages whose metrics use predict
    metric_intervals    \* constructor argument: stage -> interval of the metric updates

decVars == <<label_ids, pos, current_encoding, encodings, errors>>
bcVars == <<input_len, target_ids, constraints>>
grVars == <<relation, encoded, decoded>>
tokVars == <<text_len, token_offset_mapping, strict_span_conversion, doc_spans,
             token_doc, text_doc>>

taskVars == <<create_constraints, log_first_n_examples, task_encodings,
              task_targets, task_yielded, cursor>>

tdVars == <<partition_layer, partition_idx, tokenized_texts, td_result,
           added_annotations>>

findVars == <<text, tokens, start>>

prepVars == <<documents>>

batchVars == <<model_output, task_outputs>>

daVars == <<decoded_annotations>>

genVars == <<input_ids, remaining, constraint>>

modelVars == <<training, is_training, stage, batch_idx, metric_splits, use_prediction_for_metrics, metric_intervals>>

vars == <<labels_per_layer, pc, decVars, bcVars, grVars, tokVars, taskVars, tdVars, findVars, prepVars, batchVars, daVars, genVars, modelVars>>

----------------------------------------------------------------------------
(* Generic helpers *)

Range(s) == {s[k] : k \in DOMAIN s}

RECURSIVE Concat(_)
Concat(ss) == IF ss = <<>> THEN <<>> ELSE Head(ss) \o Concat(Tail(ss))

SeqsUpTo(S, n) == UNION {[1..k -> S] : k \in 0..n}

----------------------------------------------------------------------------
(* Bounds of the checked instances *)

\* source positions addressable by the pointer ids of a decoded stream
MaxPtr == 2
\* length of the unstructured id lists fed to decode_relations
MaxFreeLen == 3
\* largest input_len handed to build_constraints
MaxInputLen == 3
\* number of source tokens of the relations that are encoded and decoded back
MaxSrcLen == 5
\* characters of the text of a tokenized document
MaxTextLen == 3
\* tokens of a token offset mapping
MaxTokens == 3
\* spans of the span layer of a text document
MaxDocSpans == 2
\* task encodings of a batch
MaxBatch == 2
\* gold spans of a tokenized document
MaxTaskSpans == 2
\* gold relations of a tokenized document
MaxTaskRelations == 1
\* encodings the tokenizer returns for one text (windows of an overflowing text)
MaxEncodings == 2
\* partitions of the partition layer of a text document
MaxPartitions == 2
\* characters of the text, tokens and characters of a token in
\* find_token_offset_mapping
MaxFindTextLen == 3
MaxFindTokens == 3
MaxFindTokenLen == 2
\* documents given to prepare, and labels of one layer of a document
MaxDocuments == 2
MaxDocSpanLabels == 2
MaxDocRelationLabels == 1
\* ids of the label sequence of one batch item
MaxLabelLen == 3
\* tuples of an output given to decode_annotations
MaxOutputTuples == 2
\* ids generated behind the bos id: two tuples and one more id
MaxGeneratedLen == 15
\* largest batch index of a step
MaxBatchIdx == 2
\* largest interval of the metric updates
MaxMetricInterval == 2

----------------------------------------------------------------------------
(* Constructor arguments and tokenizer specials *)

bos_token == "<s>"
eos_token == "</s>"
none_label == "none"
loop_dummy_relation_name == "loop"
span_layer_name == "labeled_spans"
relation_layer_name == "binary_relations"
KEY_INVALID_CORRECT == "correct"

\* labels_per_layer of the test fixture
FixtureLabels ==
    [labeled_spans |-> <<"content", "person", "topic">>,
     binary_relations |-> <<"is_about">>]

\* a smaller prepared vocabulary: one span label, one relation label
SmallLabels ==
    [labeled_spans |-> <<"content">>, binary_relations |-> <<"is_about">>]

----------------------------------------------------------------------------
(* _post_prepare: labels, targets and ids derived from labels_per_layer *)

layer_names == <<span_layer_name, relation_layer_name>>

special_targets == <<bos_token, eos_token>>

labels == <<none_label>> \o labels_per_layer[span_layer_name]
              \o labels_per_layer[relation_layer_name]

targets == special_targets \o labels

\* {target: idx for idx, target in enumerate(targets)}: the last index wins
target2id(t) == (CHOOSE k \in DOMAIN targets :
                    targets[k] = t /\ \A j \in DOMAIN targets : targets[j] = t => j <= k) - 1

eos_id == target2id(eos_token)
bos_id == target2id(bos_token)
none_id == target2id(none_label)
\* special_target2id[eos_token], over the special targets alone
target_pad_id ==
    (CHOOSE k \in DOMAIN special_targets :
        /\ special_targets[k] = eos_token
        /\ \A j \in DOMAIN special_targets : special_targets[j] = eos_token => j <= k) - 1

span_ids == {target2id(l) : l \in Range(labels_per_layer[span_layer_name])}
relation_ids == {target2id(l) : l \in Range(labels_per_layer[relation_layer_name])}

pointer_offset == Len(targets)

label2id(l) == target2id(l)
id2label(i) == CHOOSE l \in Range(labels) : label2id(l) = i

----------------------------------------------------------------------------
(* _post_prepare: configuration of the annotation encoder-decoders *)

\* SpanEncoderDecoderWithOffset(offset=self.pointer_offset, exclusive_end=False)
span_offset == pointer_offset
exclusive_end == FALSE

\* label2id restricted to the span labels
span_label2id_keys ==
    {l \in Range(labels) : l \in Range(labels_per_layer[span_layer_name])}

\* mutant: the none label is missing from the relation label set
relation_label2id_keys_NoNone ==
    {l \in Range(labels) : l \in Range(labels_per_layer[relation_layer_name])}

\* label2id restricted to relation labels + [loop_dummy_relation_name, none_label]
relation_label2id_keys ==
    {l \in Range(labels) :
        l \in Range(labels_per_layer[relation_layer_name])
                 \cup {loop_dummy_relation_name, none_label}}

\* mutant: head first
relation_mode_HeadTail == "head_tail_label"

\* BinaryRelationEncoderDecoder(..., mode="tail_head_label")
relation_mode == "tail_head_label"

----------------------------------------------------------------------------
(* Annotation encoder-decoders (pointer_network/annotation_encoder_decoder). *)
(* Results are records: [ok |-> TRUE, value |-> v] or                        *)
(* [ok |-> FALSE, exception |-> class, identifier |-> reason code].          *)

Ok(v) == [ok |-> TRUE, value |-> v]
DecodingException(id) ==
    [ok |-> FALSE, exception |-> "DecodingException", identifier |-> id]
OtherException(cls) == [ok |-> FALSE, exception |-> cls, identifier |-> cls]

LabeledSpan(s, e, l) == [start |-> s, end |-> e, label |-> l]
BinaryRelation(h, t, l) == [head |-> h, tail |-> t, label |-> l]

\* encodeSpan: (offset + start, offset + end - 1) with an inclusive end
SpanEncode(span) ==
    <<span.start + span_offset,
      (IF exclusive_end THEN span.end ELSE span.end - 1) + span_offset>>

\* decodeSpan: inverse of SpanEncode; fails if the shape is wrong or end < start
SpanDecode(enc) ==
    IF Len(enc) # 2 THEN DecodingException("len")
    ELSE LET s == enc[1] - span_offset
             e == (enc[2] - span_offset) + (IF exclusive_end THEN 0 ELSE 1)
         IN  IF e < s THEN DecodingException("order")
             ELSE Ok([start |-> s, end |-> e])

\* mode "indices_label": span indices followed by the label id
LabeledSpanEncode(span) ==
    IF span.label \notin span_label2id_keys THEN OtherException("KeyError")
    ELSE Ok(SpanEncode(span) \o <<label2id(span.label)>>)

LabeledSpanDecode(enc) ==
    IF Len(enc) # 3 THEN DecodingException("len")
    ELSE LET sp == SpanDecode(SubSeq(enc, 1, 2))
         IN  IF ~sp.ok THEN sp
             ELSE IF enc[3] \notin {label2id(l) : l \in span_label2id_keys}
                  THEN DecodingException("label")
                  ELSE Ok(LabeledSpan(sp.value.start, sp.value.end, id2label(enc[3])))

\* first and second argument of the 7 slots under the configured mode
FirstArgument(rel) == IF relation_mode = "tail_head_label" THEN rel.tail ELSE rel.head
SecondArgument(rel) == IF relation_mode = "tail_head_label" THEN rel.head ELSE rel.tail

RelationEncode(rel) ==
    IF rel.label = loop_dummy_relation_name
    THEN IF rel.head # rel.tail THEN OtherException("ValueError")
         ELSE LET a == LabeledSpanEncode(FirstArgument(rel))
              IN  IF ~a.ok THEN a
                  ELSE Ok(a.value \o <<none_id, none_id, none_id, none_id>>)
    ELSE IF rel.label \notin relation_label2id_keys THEN OtherException("KeyError")
    ELSE LET a == LabeledSpanEncode(FirstArgument(rel))
             b == LabeledSpanEncode(SecondArgument(rel))
         IN  IF ~a.ok THEN a
             ELSE IF ~b.ok THEN b
             ELSE Ok(a.value \o b.value \o <<label2id(rel.label)>>)

RelationDecode(enc) ==
    IF Len(enc) # 7 THEN DecodingException("len")
    ELSE IF enc[7] \notin {label2id(l) : l \in relation_label2id_keys}
    THEN DecodingException("label")
    ELSE IF enc[7] = none_id
    THEN \* loop relation: one span followed by none ids
         LET a == LabeledSpanDecode(SubSeq(enc, 1, 3))
         IN  IF ~a.ok THEN a
             ELSE IF \E k \in 4..6 : enc[k] # none_id THEN DecodingException("len")
             ELSE Ok(BinaryRelation(a.value, a.value, loop_dummy_relation_name))
    ELSE LET a == LabeledSpanDecode(SubSeq(enc, 1, 3))
             b == LabeledSpanDecode(SubSeq(enc, 4, 6))
         IN  IF ~a.ok THEN a
             ELSE IF ~b.ok THEN b
             ELSE IF relation_mode = "tail_head_label"
                  THEN Ok(BinaryRelation(b.value, a.value, id2label(enc[7])))
                  ELSE Ok(BinaryRelation(a.value, b.value, id2label(enc[7])))

\* reason codes of the decoding errors, plus the key of the correct count
ErrorKeys == {KEY_INVALID_CORRECT, "len", "order", "label"}

----------------------------------------------------------------------------
(* decode_relations *)

\* mutant: a none id completes the encoding at any length from 7 on
IsComplete_AtLeast7(cur, i) ==
    i \in relation_ids \/ (i = none_id /\ Len(cur) >= 7)

\* mutant: only a relation id completes an encoding
IsComplete_RelationOnly(cur, i) == i \in relation_ids

\* line 423: the accumulator (with i appended) is a complete encoding
IsComplete(cur, i) ==
    i \in relation_ids \/ (i = none_id /\ Len(cur) = 7)

\* mutant: an id that completes nothing is not kept
DecodeStep_DropsId(st, i) ==
    LET cur == Append(st.current_encoding, i)
    IN  IF IsComplete(cur, i)
        THEN LET r == RelationDecode(cur)
             IN  IF r.ok
                 THEN [st EXCEPT !.encodings = Append(@, r.value),
                                 !.errors[KEY_INVALID_CORRECT] = @ + 1,
                                 !.current_encoding = <<>>]
                 ELSE IF r.exception = "DecodingException"
                 THEN [st EXCEPT !.errors[r.identifier] = @ + 1,
                                 !.current_encoding = <<>>]
                 ELSE [st EXCEPT !.raised = TRUE]
        ELSE st

\* mutant: the accumulator is not reset after a decoding error
DecodeStep_NoReset(st, i) ==
    LET cur == Append(st.current_encoding, i)
    IN  IF IsComplete(cur, i)
        THEN LET r == RelationDecode(cur)
             IN  IF r.ok
                 THEN [st EXCEPT !.encodings = Append(@, r.value),
                                 !.errors[KEY_INVALID_CORRECT] = @ + 1,
                                 !.current_encoding = <<>>]
                 ELSE IF r.exception = "DecodingException"
                 THEN [st EXCEPT !.errors[r.identifier] = @ + 1,
                                 !.current_encoding = cur]
                 ELSE [st EXCEPT !.raised = TRUE]
        ELSE [st EXCEPT !.current_encoding = cur]

\* One iteration of the for loop over label_ids.  st is the loop state
\* [current_encoding, encodings, errors, raised].
DecodeStep(st, i) ==
    LET cur == Append(st.current_encoding, i)
    IN  IF IsComplete(cur, i)
        THEN LET r == RelationDecode(cur)
             IN  IF r.ok
                 THEN [st EXCEPT !.encodings = Append(@, r.value),
                                 !.errors[KEY_INVALID_CORRECT] = @ + 1,
                                 !.current_encoding = <<>>]
                 ELSE IF r.exception = "DecodingException"
                 THEN [st EXCEPT !.errors[r.identifier] = @ + 1,
                                 !.current_encoding = <<>>]
                 ELSE [st EXCEPT !.raised = TRUE]
        ELSE [st EXCEPT !.current_encoding = cur]

DecodeInit ==
    [current_encoding |-> <<>>, encodings |-> <<>>,
     errors |-> [k \in ErrorKeys |-> 0], raised |-> FALSE]

RECURSIVE DecodeLoop(_, _)
DecodeLoop(st, ids) ==
    IF ids = <<>> \/ st.raised THEN st
    ELSE DecodeLoop(DecodeStep(st, Head(ids)), Tail(ids))

\* the whole function: [encodings, errors, remaining, raised]
decode_relations(ids) ==
    LET st == DecodeLoop(DecodeInit, ids)
    IN  [encodings |-> st.encodings, errors |-> st.errors,
         remaining |-> st.current_encoding, raised |-> st.raised]


----------------------------------------------------------------------------
(* Constraint builder.  A constraint row is a function 0..n-1 -> {0, 1}. *)

Zeros(n) == [k \in 0..(n - 1) |-> 0]

\* mutant: the slice assignment is lost
SliceAssign_Lost(result, a, b, v) == result

\* mutant: the end of the slice is included
SliceAssign_InclusiveEnd(result, a, b, v) ==
    [k \in DOMAIN result |-> IF a <= k /\ k <= b THEN v ELSE result[k]]

\* result[a:b] = v  (a slice is clipped to the tensor)
SliceAssign(result, a, b, v) ==
    [k \in DOMAIN result |-> IF a <= k /\ k < b THEN v ELSE result[k]]

\* mutant: the slice starts one behind its start
SliceFromAssign_FromNext(result, a, v) ==
    [k \in DOMAIN result |-> IF a < k THEN v ELSE result[k]]

\* mutant: the slice ends one before the end of the tensor
SliceFromAssign_ShortByOne(result, a, v) ==
    [k \in DOMAIN result |-> IF a <= k /\ k < Cardinality(DOMAIN result) - 1 THEN v ELSE result[k]]

\* result[a:] = v
SliceFromAssign(result, a, v) ==
    [k \in DOMAIN result |-> IF a <= k THEN v ELSE result[k]]

\* mutant: a slice from the first index instead of the indices
IndexAssign_AsSlice(result, ids, v) ==
    [k \in DOMAIN result |-> IF \E i \in ids : i <= k THEN v ELSE result[k]]

\* mutant: the assignment is lost
IndexAssign_Lost(result, ids, v) == result

\* result[ids] = v for a list of indices
IndexAssign(result, ids, v) ==
    [k \in DOMAIN result |-> IF k \in ids THEN v ELSE result[k]]

_build_constraint(previous_ids, n_input) ==
    LET result == Zeros(n_input + pointer_offset)
        contains_none == none_id \in Range(previous_ids)
        idx == Len(previous_ids)
    IN  IF eos_id \in Range(previous_ids)
        THEN IndexAssign(result, {target_pad_id}, 1)
        ELSE IF idx = 0
        THEN IndexAssign(SliceFromAssign(result, pointer_offset, 1), {eos_id}, 1)
        ELSE IF idx = 1
        THEN SliceFromAssign(result, previous_ids[idx], 1)
        ELSE IF idx = 2
        THEN IndexAssign(result, span_ids, 1)
        ELSE IF idx = 3
        THEN LET first_span_start == previous_ids[1]
                 first_span_end == previous_ids[2] + 1
             IN  SliceAssign(
                     IndexAssign(SliceFromAssign(result, pointer_offset, 1), {none_id}, 1),
                     first_span_start, first_span_end, 0)
        ELSE IF idx = 4
        THEN IF contains_none
             THEN IndexAssign(result, {none_id}, 1)
             ELSE LET second_span_start == previous_ids[idx]
                      first_span_start == previous_ids[1]
                      first_span_end == previous_ids[2] + 1
                      r1 == SliceAssign(SliceFromAssign(result, second_span_start, 1),
                                        first_span_start, first_span_end, 0)
                  IN  IF first_span_start > second_span_start
                      THEN SliceFromAssign(r1, first_span_end, 0)
                      ELSE r1
        ELSE IF idx = 5
        THEN IF contains_none
             THEN IndexAssign(result, {none_id}, 1)
             ELSE IndexAssign(result, span_ids, 1)
        ELSE IF idx = 6
        THEN IF contains_none
             THEN IndexAssign(result, {none_id}, 1)
             ELSE IndexAssign(result, relation_ids, 1)
        ELSE IndexAssign(result, {target_pad_id}, 1)

\* lines 636-655: the encoder-decoder configuration build_constraints supports
ConstraintsSupported ==
    /\ relation_mode = "tail_head_label"
    /\ span_offset = pointer_offset
    /\ ~exclusive_end

\* Python list slice target_ids[a:b] for 0 <= a
PySlice(s, a, b) == SubSeq(s, a + 1, IF b > Len(s) THEN Len(s) ELSE b)

\* mutant: the self-consistency check of the chosen id is missing
ConstraintRow_NoCheck(n_input, ids, idx) ==
    [raised |-> FALSE,
     row |-> _build_constraint(PySlice(ids, (idx \div 7) * 7, idx), n_input)]

\* lines 665-676: the row of position idx (0-based), or a raise if the row
\* disallows the id chosen there (an id beyond the row raises an IndexError)
ConstraintRow(n_input, ids, idx) ==
    LET current_tuple_start == (idx \div 7) * 7
        current_tuple == PySlice(ids, current_tuple_start, idx)
        current_constraints == _build_constraint(current_tuple, n_input)
        t == ids[idx + 1]
    IN  IF t \notin DOMAIN current_constraints \/ current_constraints[t] = 0
        THEN [raised |-> TRUE, row |-> current_constraints]
        ELSE [raised |-> FALSE, row |-> current_constraints]

\* line 656: target_ids[-1] is the eos id (an empty list raises an IndexError)
EndsWithEos(ids) == ids # <<>> /\ ids[Len(ids)] = eos_id

\* mutant: tuples of any length are accepted
LengthAccepted_Any(labels_without_eos) == TRUE

\* line 661: len(labels_without_eos) % 7 == 0
LengthAccepted(labels_without_eos) == Len(labels_without_eos) % 7 = 0

\* the whole function: [raised |-> TRUE] or [raised |-> FALSE, value |-> rows]
build_constraints(n_input, ids) ==
    IF ~ConstraintsSupported THEN [raised |-> TRUE, value |-> <<>>]
    ELSE IF ~EndsWithEos(ids) THEN [raised |-> TRUE, value |-> <<>>]
    ELSE LET labels_without_eos == SubSeq(ids, 1, Len(ids) - 1)
         IN  IF ~LengthAccepted(labels_without_eos) THEN [raised |-> TRUE, value |-> <<>>]
             ELSE LET rows == [k \in 1..Len(labels_without_eos) |->
                                  ConstraintRow(n_input, ids, k - 1)]
                      eos_constraint ==
                          IndexAssign(Zeros(n_input + pointer_offset), {eos_id}, 1)
                  IN  IF \E k \in DOMAIN rows : rows[k].raised
                      THEN [raised |-> TRUE, value |-> <<>>]
                      ELSE [raised |-> FALSE,
                            value |-> [k \in 1..Len(ids) |->
                                          IF k < Len(ids) THEN rows[k].row
                                          ELSE eos_constraint]]

----------------------------------------------------------------------------
(* document/processing/tokenization.py: span conversion *)

\* a Python Optional: None, or Some(value)
None == [is_none |-> TRUE]
Some(v) == [is_none |-> FALSE, value |-> v]

\* s[i] of a Python list, negative indices counting from the end
PyIndexOk(s, i) == -Len(s) <= i /\ i < Len(s)
PyIndex(s, i) == IF i >= 0 THEN s[i + 1] ELSE s[Len(s) + i + 1]

\* lines 181-187: char_to_token_dict built from the offsets; a later token
\* overwrites an earlier one on a shared character.  The result is
\* char_to_token_dict.get(char_idx)
CharToToken(mapping, char_idx) ==
    LET covering == {t \in DOMAIN mapping :
                        mapping[t][1] <= char_idx /\ char_idx < mapping[t][2]}
    IN  IF covering = {} THEN None
        ELSE Some((CHOOSE t \in covering : \A u \in covering : u <= t) - 1)

\* mutant: the exclusive end character is looked up
char_span_to_token_span_ExclusiveEnd(span, mapping) ==
    LET start_token_idx == CharToToken(mapping, span.start)
        end_token_idx_inclusive == CharToToken(mapping, span.end)
    IN  IF start_token_idx.is_none \/ end_token_idx_inclusive.is_none THEN None
        ELSE Some([span EXCEPT !.start = start_token_idx.value,
                               !.end = end_token_idx_inclusive.value + 1])

\* char_span_to_token_span for a Span, with the char_to_token of the offsets
char_span_to_token_span(span, mapping) ==
    LET start_token_idx == CharToToken(mapping, span.start)
        end_token_idx_inclusive == CharToToken(mapping, span.end - 1)
    IN  IF start_token_idx.is_none \/ end_token_idx_inclusive.is_none THEN None
        ELSE Some([span EXCEPT !.start = start_token_idx.value,
                               !.end = end_token_idx_inclusive.value + 1])

\* mutant: the end character is taken from the start of the last token
token_span_to_char_span_LastStart(span, mapping) ==
    IF ~PyIndexOk(mapping, span.start) \/ ~PyIndexOk(mapping, span.end - 1)
    THEN OtherException("IndexError")
    ELSE Ok([span EXCEPT !.start = PyIndex(mapping, span.start)[1],
                         !.end = PyIndex(mapping, span.end - 1)[1] + 1])

\* token_span_to_char_span for a Span: direct indexing of the offsets
token_span_to_char_span(span, mapping) ==
    IF ~PyIndexOk(mapping, span.start) \/ ~PyIndexOk(mapping, span.end - 1)
    THEN OtherException("IndexError")
    ELSE Ok([span EXCEPT !.start = PyIndex(mapping, span.start)[1],
                         !.end = PyIndex(mapping, span.end - 1)[2]])

\* span_sort_key of a Span
SpanSortKeyLeq(a, b) ==
    a.start < b.start \/ (a.start = b.start /\ a.end <= b.end)

\* sorted(set, key=span_sort_key): the orders a sort of the set can give (spans
\* with equal keys come in the iteration order of the set)
SortedLayers(S) ==
    {q \in [1..Cardinality(S) -> S] :
        /\ Range(q) = S
        /\ \A k \in 1..(Cardinality(S) - 1) : SpanSortKeyLeq(q[k], q[k + 1])}

\* lines 197-221 for one text-targeting layer.  override_annotations and
\* removed_annotations are keyed by the annotation (its _id is its value hash).
\* [raised, override, removed, added, valid_spans]
ConvertLayer(layer, mapping, strict) ==
    LET conv(sp) == char_span_to_token_span(sp, mapping)
        failed == {k \in DOMAIN layer : conv(layer[k]).is_none}
    IN  IF strict /\ failed # {}
        THEN [raised |-> TRUE, override |-> <<>>, removed |-> {},
              added |-> SubSeq(layer, 1, (CHOOSE k \in failed : \A j \in failed : k <= j) - 1),
              valid_spans |-> {}]
        ELSE [raised |-> FALSE,
              override |-> [sp \in {layer[k] : k \in DOMAIN layer \ failed} |-> conv(sp).value],
              removed |-> {layer[k] : k \in failed},
              added |-> SelectSeq(layer, LAMBDA sp : ~conv(sp).is_none),
              valid_spans |-> {conv(layer[k]).value : k \in DOMAIN layer \ failed}]

\* lines 305-315 for one token-targeting layer; every span is converted
\* [raised, override, valid_spans]
ConvertLayerBack(layer, mapping) ==
    LET conv(sp) == token_span_to_char_span(sp, mapping)
    IN  IF \E k \in DOMAIN layer : ~conv(layer[k]).ok
        THEN [raised |-> TRUE, override |-> <<>>, valid_spans |-> {}]
        ELSE [raised |-> FALSE,
              override |-> [sp \in Range(layer) |-> conv(sp).value],
              valid_spans |-> {conv(layer[k]).value : k \in DOMAIN layer}]

----------------------------------------------------------------------------
(* document/processing/tokenization.py: tokenize_document *)

\* lines 343-346: the partitions the loop goes through
Partitions(layer, n) ==
    IF layer.is_none THEN <<[start |-> 0, end |-> n]>> ELSE layer.value

\* lines 367-371: the offsets of an encoding in the coordinates of the whole
\* text (offsets + 0 for a partition that starts at 0)
ShiftedOffsets_Unshifted(offsets, partition) == offsets
ShiftedOffsets(offsets, partition) ==
    [k \in DOMAIN offsets |->
        <<offsets[k][1] + partition.start, offsets[k][2] + partition.start>>]

\* lines 372-383: the token document of one encoding of a partition.  Spans
\* and partitions are the text-targeting layers; the inner conversion is
\* lenient.
TokenizedDocument(spans, layer, offsets, partition) ==
    [token_offset_mapping |-> ShiftedOffsets(offsets, partition),
     labeled_spans |->
         ConvertLayer(spans, ShiftedOffsets(offsets, partition), FALSE),
     labeled_partitions |->
         ConvertLayer(IF layer.is_none THEN <<>> ELSE layer.value,
                      ShiftedOffsets(offsets, partition), FALSE)]

\* mutant: only the annotations of the last encoding are remembered
AddedAfter_LastOnly(added, docs) ==
    [labeled_spans |-> docs[Len(docs)].labeled_spans.added,
     labeled_partitions |-> docs[Len(docs)].labeled_partitions.added]

\* added_annotations after the inner loop went through the token documents docs
AddedAfter(added, docs) ==
    [labeled_spans |->
         added.labeled_spans \o Concat([k \in DOMAIN docs |-> docs[k].labeled_spans.added]),
     labeled_partitions |->
         added.labeled_partitions
             \o Concat([k \in DOMAIN docs |-> docs[k].labeled_partitions.added])]

\* lines 386-398: the missed annotations of the span layer (the partition
\* layer is not looked at)
MissedAnnotations(spans, added) == Range(spans) \ Range(added.labeled_spans)

----------------------------------------------------------------------------
(* Target encoding and decoding of the annotation layers *)

\* keys of a dict in insertion order, after inserting the items of s in turn
RECURSIVE DictKeys(_)
DictKeys(s) ==
    IF s = <<>> THEN <<>>
    ELSE LET front == DictKeys(SubSeq(s, 1, Len(s) - 1))
         IN  IF s[Len(s)] \in Range(front) THEN front ELSE Append(front, s[Len(s)])

\* lines 90-95
cmp_src_rel(v1, v2) ==
    IF v1.head.start = v2.head.start
    THEN v1.tail.start - v2.tail.start
    ELSE v1.head.start - v2.head.start

\* sorted(relation_encodings, key=cmp_to_key(cmp_src_rel)): a stable sort of
\* the items [rel, encoded] of the dict by their key rel
RECURSIVE SortedBySrc(_)
SortedBySrc(s) ==
    IF s = <<>> THEN <<>>
    ELSE LET front == SortedBySrc(SubSeq(s, 1, Len(s) - 1))
             before == Cardinality({j \in DOMAIN front :
                                       cmp_src_rel(front[j].rel, s[Len(s)].rel) <= 0})
         IN  SubSeq(front, 1, before) \o <<s[Len(s)]>>
                 \o SubSeq(front, before + 1, Len(front))

\* mutant: the relations stay in the order of the dictionary
SortedRelations_LayerOrder(relation_encodings) == relation_encodings

\* line 477
SortedRelations(relation_encodings) == SortedBySrc(relation_encodings)

\* lines 448-460: the relations with a prepared label, in layer order
PreparedRelations(layers) ==
    SelectSeq(layers[relation_layer_name],
              LAMBDA r : r.label \in Range(labels_per_layer[relation_layer_name]))

\* mutant: the arguments of all relations of the layer count as used
DummyRelations_AllRelations(layers, rels) ==
    LET no_relation_spans ==
            SelectSeq(layers[span_layer_name],
                      LAMBDA sp : \A k \in DOMAIN layers[relation_layer_name] :
                                     /\ sp # layers[relation_layer_name][k].head
                                     /\ sp # layers[relation_layer_name][k].tail)
    IN  [k \in DOMAIN no_relation_spans |->
            [head |-> no_relation_spans[k], tail |-> no_relation_spans[k],
             label |-> loop_dummy_relation_name]]

\* lines 463-472: a loop relation for every span that is no argument of rels
DummyRelations(layers, rels) ==
    LET no_relation_spans ==
            SelectSeq(layers[span_layer_name],
                      LAMBDA sp : \A k \in DOMAIN rels : sp # rels[k].head /\ sp # rels[k].tail)
    IN  [k \in DOMAIN no_relation_spans |->
            [head |-> no_relation_spans[k], tail |-> no_relation_spans[k],
             label |-> loop_dummy_relation_name]]

\* the dict relation_encodings as its items in insertion order; an item whose
\* encoded is not ok stands for the exception raised when it was to be encoded
RelationEncodingItems(rels) ==
    [k \in DOMAIN rels |-> [rel |-> rels[k], encoded |-> RelationEncode(rels[k])]]

\* lines 480-484
TargetIds(sorted_relations) ==
    Concat([k \in DOMAIN sorted_relations |-> sorted_relations[k].encoded.value])
        \o <<eos_id>>

\* mutant: a raise of build_constraints is not passed on
LabelsAndOptionalConstraints_BuiltUnchecked(ids, sanity, built) ==
    IF sanity.raised THEN OtherException("Exception")
    ELSE IF ~create_constraints THEN Ok([labels |-> ids, constraints |-> None])
    ELSE Ok([labels |-> ids, constraints |-> Some(built.value)])

\* lines 486-523, sanity being decode_relations(ids) and built being
\* build_constraints(src_len, ids)
LabelsAndOptionalConstraints(ids, sanity, built) ==
    IF sanity.raised THEN OtherException("Exception")
    ELSE IF ~create_constraints THEN Ok([labels |-> ids, constraints |-> None])
    ELSE IF built.raised THEN OtherException("Exception")
    ELSE Ok([labels |-> ids, constraints |-> Some(built.value)])

EncodeTargetIds(ids, src_len) ==
    LabelsAndOptionalConstraints(ids, decode_relations(ids), build_constraints(src_len, ids))

\* encode_annotations once the relations and the loop relations are encoded
EncodeItems(items, src_len) ==
    IF \E k \in DOMAIN items : ~items[k].encoded.ok
    THEN items[CHOOSE j \in DOMAIN items :
                   /\ ~items[j].encoded.ok
                   /\ \A i \in 1..(j - 1) : items[i].encoded.ok].encoded
    ELSE EncodeTargetIds(TargetIds(SortedRelations(items)), src_len)

\* encode_annotations(layers, metadata) with metadata["src_len"] = src_len:
\* Ok(LabelsAndOptionalConstraints) or an exception
encode_annotations(layers, src_len) ==
    EncodeItems(
        RelationEncodingItems(
            DictKeys(PreparedRelations(layers)
                        \o DummyRelations(layers, PreparedRelations(layers)))),
        src_len)

\* the (start, end) keys and labels of the arguments of the decoded relations,
\* in the order lines 531-540 meet them
RECURSIVE EntityOccurrences(_)
EntityOccurrences(rels) ==
    IF rels = <<>> THEN <<>>
    ELSE LET rel == Head(rels)
         IN  (IF rel.label # loop_dummy_relation_name
              THEN <<rel.head, rel.tail>> ELSE <<rel.head>>)
                 \o EntityOccurrences(Tail(rels))

SpanKey(sp) == <<sp.start, sp.end>>

\* mutant: the label met first
MostCommon_First(ls) == ls[1]

\* Counter(ls).most_common(1)[0][0]: the first of the most frequent labels
MostCommon(ls) ==
    LET keys == DictKeys(ls)
        count(l) == Cardinality({j \in DOMAIN ls : ls[j] = l})
    IN  keys[CHOOSE i \in DOMAIN keys :
                 \A j \in DOMAIN keys :
                     \/ count(keys[i]) > count(keys[j])
                     \/ (count(keys[i]) = count(keys[j]) /\ i <= j)]

\* lines 543-550: one span per (start, end) key with its most common label
EntityOf(occ, key) ==
    LET sel == SelectSeq(occ, LAMBDA sp : SpanKey(sp) = key)
    IN  LabeledSpan(key[1], key[2], MostCommon([k \in DOMAIN sel |-> sel[k].label]))

\* lines 528-560 on the decoded relations: the two layers
DecodedLayers(decoded_relations) ==
    LET occ == EntityOccurrences(decoded_relations)
    IN  [labeled_spans |->
             LET keys == DictKeys([k \in DOMAIN occ |-> SpanKey(occ[k])])
             IN  [k \in DOMAIN keys |-> EntityOf(occ, keys[k])],
         binary_relations |->
             LET relation_tuples ==
                     SelectSeq(decoded_relations,
                               LAMBDA r : r.label # loop_dummy_relation_name)
             IN  [k \in DOMAIN relation_tuples |->
                     [head |-> EntityOf(occ, SpanKey(relation_tuples[k].head)),
                      tail |-> EntityOf(occ, SpanKey(relation_tuples[k].tail)),
                      label |-> relation_tuples[k].label]]]

\* line 540: assert rel.head == rel.tail for the loop relations
LoopAssertionFails(decoded_relations) ==
    \E k \in DOMAIN decoded_relations :
        /\ decoded_relations[k].label = loop_dummy_relation_name
        /\ decoded_relations[k].head # decoded_relations[k].tail

\* result of decode_annotations after decode_relations returned d
DecodedAnnotations(d) ==
    IF d.raised \/ LoopAssertionFails(d.encodings)
    THEN [raised |-> TRUE, layers |-> <<>>, errors |-> d.errors]
    ELSE [raised |-> FALSE, layers |-> DecodedLayers(d.encodings), errors |-> d.errors]

\* decode_annotations(encoding): [raised, layers, errors]
decode_annotations(label_ids_) == DecodedAnnotations(decode_relations(label_ids_))

\* mutant: the exception of encode_annotations is not caught
TargetOrNone_NoCatch(result) ==
    IF result.ok THEN [raised |-> FALSE, value |-> Some(result.value)]
    ELSE [raised |-> TRUE, value |-> None]

\* lines 763-782: the try block returned result, or except returns None
TargetOrNone(result) ==
    IF result.ok THEN [raised |-> FALSE, value |-> Some(result.value)]
    ELSE [raised |-> FALSE, value |-> None]

\* encode_target(task_encoding): the layers are those of the tokenized document
\* in the metadata, src_len is len(inputs.input_ids)
encode_target(task_encoding) ==
    TargetOrNone(encode_annotations(task_encoding, Len(task_encoding.token_offset_mapping)))

\* lines 832-835: layer.clear(); layer.extend(annotations) for both layers
AttachPredictions(tokenized_document, layers) ==
    [tokenized_document EXCEPT !.labeled_spans = layers.labeled_spans,
                               !.binary_relations = layers.binary_relations]

\* lines 837-844: the annotations of the text document made from the decoded
\* layers
YieldedAnnotations(layers, back) ==
    {<<span_layer_name, sp>> : sp \in back.valid_spans}
    \cup {<<relation_layer_name,
            [head |-> back.override[layers.binary_relations[k].head],
             tail |-> back.override[layers.binary_relations[k].tail],
             label |-> layers.binary_relations[k].label]>> :
              k \in DOMAIN layers.binary_relations}

\* lines 837-844; doc is the tokenized document as lines 832-835 leave it
ConvertedToText(doc, layers, back) ==
    IF back.raised
    THEN [raised |-> TRUE, tokenized_document |-> doc, yielded |-> {}]
    ELSE [raised |-> FALSE, tokenized_document |-> doc,
          yielded |-> YieldedAnnotations(layers, back)]

\* create_annotations_from_output after decode_annotations returned dec
CreatedAnnotations(tokenized_document, dec) ==
    IF dec.raised
    THEN [raised |-> TRUE, tokenized_document |-> tokenized_document, yielded |-> {}]
    ELSE ConvertedToText(
             AttachPredictions(tokenized_document, dec.layers), dec.layers,
             ConvertLayerBack(dec.layers.labeled_spans, tokenized_document.token_offset_mapping))

\* create_annotations_from_output(task_encoding, task_output), run to its end:
\* [raised, tokenized_document (as the call leaves it), yielded]
create_annotations_from_output(tokenized_document, task_output) ==
    CreatedAnnotations(tokenized_document, decode_annotations(task_output))

----------------------------------------------------------------------------
(* Inputs of the checked instances *)

\* labeled spans over n source positions, with the prepared span labels
GoldSpans(n) ==
    {sp \in [start : 0..(n - 1), end : 1..n,
             label : Range(labels_per_layer[span_layer_name])] : sp.start < sp.end}

\* relations with a prepared label between any two spans, and the loop relations
GoldRelations(n) ==
    {BinaryRelation(h, t, l) : h \in GoldSpans(n), t \in GoldSpans(n),
                               l \in Range(labels_per_layer[relation_layer_name])}
        \cup {BinaryRelation(h, h, loop_dummy_relation_name) : h \in GoldSpans(n)}

GoldTuples(n) == {RelationEncode(r).value : r \in GoldRelations(n)}

\* ids of a stream over n source positions
StreamIds(n) == 0..(pointer_offset + n - 1)

\* a gold tuple with one slot overwritten by an arbitrary id
PerturbedTuples(n) ==
    {[t EXCEPT ![k] = v] : t \in GoldTuples(n), k \in 1..7, v \in StreamIds(n)}

\* tuples of the relations whose head is the first source token
AnchorTuples(n) ==
    {RelationEncode(r).value : r \in {x \in GoldRelations(n) : x.head.end = 1}}

\* id lists handed to decode_relations: short arbitrary lists, and a possibly
\* malformed tuple alone, before or after a gold tuple; with or without eos
DecodeInputs ==
    LET base == SeqsUpTo(StreamIds(MaxPtr), MaxFreeLen)
                  \cup PerturbedTuples(MaxPtr)
                  \cup {a \o p : a \in AnchorTuples(MaxPtr), p \in PerturbedTuples(MaxPtr)}
                  \cup {p \o a : a \in AnchorTuples(MaxPtr), p \in PerturbedTuples(MaxPtr)}
    IN  base \cup {b \o <<eos_id>> : b \in base}

----------------------------------------------------------------------------
(* Specification of decode_relations, one for-loop iteration per step *)

IdleDecode ==
    /\ label_ids = <<>>
    /\ pos = 0
    /\ current_encoding = <<>>
    /\ encodings = <<>>
    /\ errors = DecodeInit.errors

IdleConstraints ==
    /\ input_len = 0
    /\ target_ids = <<>>
    /\ constraints = <<>>

IdleGrammar ==
    /\ relation = <<>>
    /\ encoded = <<>>
    /\ decoded = <<>>

IdleTokenization ==
    /\ text_len = 0
    /\ token_offset_mapping = <<>>
    /\ strict_span_conversion = FALSE
    /\ doc_spans = <<>>
    /\ token_doc = <<>>
    /\ text_doc = <<>>

IdleTokenizeDocument ==
    /\ partition_layer = <<>>
    /\ partition_idx = 0
    /\ tokenized_texts = <<>>
    /\ td_result = <<>>
    /\ added_annotations = <<>>

IdleFind ==
    /\ text = <<>>
    /\ tokens = <<>>
    /\ start = 0

IdlePrepare ==
    /\ documents = <<>>

IdleBatch ==
    /\ model_output = <<>>
    /\ task_outputs = <<>>

IdleDecodeAnnotations ==
    /\ decoded_annotations = <<>>

IdleGeneration ==
    /\ input_ids = <<>>
    /\ remaining = <<>>
    /\ constraint = <<>>

IdleModel ==
    /\ training = TRUE
    /\ is_training = FALSE
    /\ stage = ""
    /\ batch_idx = 0
    /\ metric_splits = {}
    /\ use_prediction_for_metrics = {}
    /\ metric_intervals = <<>>

IdleTask ==
    /\ create_constraints = FALSE
    /\ log_first_n_examples = 0
    /\ task_encodings = <<>>
    /\ task_targets = <<>>
    /\ task_yielded = <<>>
    /\ cursor = 0

InitDecode ==
    /\ IdleModel
    /\ IdleGeneration
    /\ IdleDecodeAnnotations
    /\ IdleBatch
    /\ IdlePrepare
    /\ IdleFind
    /\ IdleTokenizeDocument
    /\ IdleConstraints
    /\ IdleGrammar
    /\ IdleTokenization
    /\ IdleTask
    /\ labels_per_layer = SmallLabels
    /\ pc = "decode_loop"
    /\ label_ids \in DecodeInputs
    /\ pos = 0
    /\ current_encoding = DecodeInit.current_encoding
    /\ encodings = DecodeInit.encodings
    /\ errors = DecodeInit.errors

\* lines 419-434: the body of the for loop for the next id
DecodeIterate ==
    /\ pc = "decode_loop"
    /\ pos < Len(label_ids)
    /\ LET st == DecodeStep([current_encoding |-> current_encoding,
                             encodings |-> encodings,
                             errors |-> errors, raised |-> FALSE],
                            label_ids[pos + 1])
       IN  /\ current_encoding' = st.current_encoding
           /\ encodings' = st.encodings
           /\ errors' = st.errors
           /\ pc' = IF st.raised THEN "decode_raised" ELSE "decode_loop"
    /\ pos' = pos + 1
    /\ UNCHANGED <<labels_per_layer, label_ids, bcVars, grVars, tokVars, taskVars, tdVars, findVars, prepVars, batchVars, daVars, genVars, modelVars>>

\* line 436: return encodings, dict(errors), current_encoding
DecodeReturn ==
    /\ pc = "decode_loop"
    /\ pos = Len(label_ids)
    /\ pc' = "decode_done"
    /\ UNCHANGED <<labels_per_layer, decVars, bcVars, grVars, tokVars, taskVars, tdVars, findVars, prepVars, batchVars, daVars, genVars, modelVars>>

NextDecode == DecodeIterate \/ DecodeReturn

SpecDecode == InitDecode /\ [][NextDecode]_vars


----------------------------------------------------------------------------
(* Specification of build_constraints *)

\* teacher-forcing targets: short arbitrary lists, and one or two possibly
\* malformed tuples, with or without the final eos
ConstraintInputs ==
    LET base == SeqsUpTo(StreamIds(MaxPtr), MaxFreeLen)
                  \cup PerturbedTuples(MaxPtr)
                  \cup {a \o p : a \in AnchorTuples(MaxPtr), p \in PerturbedTuples(MaxPtr)}
    IN  base \cup {b \o <<eos_id>> : b \in base}

InitConstraints ==
    /\ IdleModel
    /\ IdleGeneration
    /\ IdleDecodeAnnotations
    /\ IdleBatch
    /\ IdlePrepare
    /\ IdleFind
    /\ IdleTokenizeDocument
    /\ IdleDecode
    /\ IdleGrammar
    /\ IdleTokenization
    /\ IdleTask
    /\ labels_per_layer = SmallLabels
    /\ pc = "bc_call"
    /\ input_len \in 1..MaxInputLen
    /\ target_ids \in ConstraintInputs
    /\ constraints = <<>>

\* lines 631-683: build_constraints returns the matrix ...
BuildConstraintsReturn ==
    /\ pc = "bc_call"
    /\ LET r == build_constraints(input_len, target_ids)
       IN  /\ ~r.raised
           /\ constraints' = r.value
    /\ pc' = "bc_done"
    /\ UNCHANGED <<labels_per_layer, decVars, input_len, target_ids, grVars, tokVars, taskVars, tdVars, findVars, prepVars, batchVars, daVars, genVars, modelVars>>

\* ... or raises
BuildConstraintsRaise ==
    /\ pc = "bc_call"
    /\ build_constraints(input_len, target_ids).raised
    /\ pc' = "bc_raised"
    /\ UNCHANGED <<labels_per_layer, decVars, bcVars, grVars, tokVars, taskVars, tdVars, findVars, prepVars, batchVars, daVars, genVars, modelVars>>

NextConstraints == BuildConstraintsReturn \/ BuildConstraintsRaise

SpecConstraints == InitConstraints /\ [][NextConstraints]_vars

----------------------------------------------------------------------------
(* Specification of the relation grammar: encode an annotation, decode it back *)

\* labels that occur in documents, prepared or not
DocSpanLabels == Range(labels_per_layer[span_layer_name]) \cup {"other"}
DocRelationLabels == Range(labels_per_layer[relation_layer_name]) \cup {"no_relation"}

DocSpans(n) ==
    {sp \in [start : 0..(n - 1), end : 1..n, label : DocSpanLabels] : sp.start < sp.end}

DocRelations(n) ==
    [head : DocSpans(n), tail : DocSpans(n), label : DocRelationLabels]
        \cup {BinaryRelation(h, h, loop_dummy_relation_name) : h \in DocSpans(n)}

InitGrammar ==
    /\ IdleModel
    /\ IdleGeneration
    /\ IdleDecodeAnnotations
    /\ IdleBatch
    /\ IdlePrepare
    /\ IdleFind
    /\ IdleTokenizeDocument
    /\ IdleDecode
    /\ IdleConstraints
    /\ IdleTokenization
    /\ IdleTask
    /\ labels_per_layer = FixtureLabels
    /\ pc = "enc_call"
    /\ relation \in DocRelations(MaxSrcLen)
    /\ encoded = <<>>
    /\ decoded = <<>>

\* relation_encoder_decoder.encode(annotation=rel) returns the 7 ids ...
EncodeRelation ==
    /\ pc = "enc_call"
    /\ RelationEncode(relation).ok
    /\ encoded' = RelationEncode(relation).value
    /\ pc' = "enc_done"
    /\ UNCHANGED <<labels_per_layer, decVars, bcVars, relation, decoded, tokVars, taskVars, tdVars, findVars, prepVars, batchVars, daVars, genVars, modelVars>>

\* ... or raises for a label outside the label2id of the encoder
EncodeRelationRaise ==
    /\ pc = "enc_call"
    /\ ~RelationEncode(relation).ok
    /\ pc' = "enc_raised"
    /\ UNCHANGED <<labels_per_layer, decVars, bcVars, grVars, tokVars, taskVars, tdVars, findVars, prepVars, batchVars, daVars, genVars, modelVars>>

\* decode_relations(label_ids=encoded)
DecodeEncoded ==
    /\ pc = "enc_done"
    /\ decoded' = decode_relations(encoded)
    /\ pc' = "dec_done"
    /\ UNCHANGED <<labels_per_layer, decVars, bcVars, relation, encoded, tokVars, taskVars, tdVars, findVars, prepVars, batchVars, daVars, genVars, modelVars>>

NextGrammar == EncodeRelation \/ EncodeRelationRaise \/ DecodeEncoded

SpecGrammar == InitGrammar /\ [][NextGrammar]_vars

----------------------------------------------------------------------------
(* Specification of the text <-> token document conversion *)

\* offsets of one token: zero width at 0 (a special token) or a character range
TokenOffsets(n) ==
    {<<0, 0>>} \cup {o \in (0..(n - 1)) \X (1..n) : o[1] < o[2]}

\* offset mappings of a tokenizer: the tokens with characters are in text
\* order and do not overlap
OffsetMappings(n) ==
    {m \in UNION {[1..k -> TokenOffsets(n)] : k \in 1..MaxTokens} :
        \A i \in DOMAIN m : \A j \in DOMAIN m :
            (i < j /\ m[i][1] < m[i][2] /\ m[j][1] < m[j][2]) => m[i][2] <= m[j][1]}

CharSpans(n) ==
    {sp \in [start : 0..(n - 1), end : 1..n, label : {"content"}] : sp.start < sp.end}

\* layers hold distinct annotations
SpanLayers(n) ==
    {l \in SeqsUpTo(CharSpans(n), MaxDocSpans) :
        \A i \in DOMAIN l : \A j \in DOMAIN l : i # j => l[i] # l[j]}

InitTokenization ==
    /\ IdleModel
    /\ IdleGeneration
    /\ IdleDecodeAnnotations
    /\ IdleBatch
    /\ IdlePrepare
    /\ IdleFind
    /\ IdleTokenizeDocument
    /\ IdleDecode
    /\ IdleConstraints
    /\ IdleGrammar
    /\ IdleTask
    /\ labels_per_layer = SmallLabels
    /\ pc = "tok_call"
    /\ text_len = MaxTextLen
    /\ token_offset_mapping \in OffsetMappings(text_len)
    /\ strict_span_conversion \in BOOLEAN
    /\ doc_spans \in SpanLayers(text_len)
    /\ token_doc = <<>>
    /\ text_doc = <<>>

\* text_based_document_to_token_based(doc, token_offset_mapping=...,
\* added_annotations=[]) returns the token document ...
TextToTokenBased ==
    /\ pc = "tok_call"
    /\ LET r == ConvertLayer(doc_spans, token_offset_mapping, strict_span_conversion)
       IN  /\ ~r.raised
           /\ \E sorted \in SortedLayers(r.valid_spans) :
                 token_doc' = [labeled_spans |-> sorted,
                               override_annotations |-> r.override,
                               removed_annotations |-> r.removed,
                               added_annotations |-> r.added]
    /\ pc' = "tok_done"
    /\ UNCHANGED <<labels_per_layer, decVars, bcVars, grVars, text_len,
                   token_offset_mapping, strict_span_conversion, doc_spans, text_doc,
                   taskVars, tdVars, findVars, prepVars, batchVars, daVars, genVars, modelVars>>

\* ... or raises the ValueError of line 205; the spans converted before it are
\* already in the caller's added_annotations
TextToTokenBasedRaise ==
    /\ pc = "tok_call"
    /\ LET r == ConvertLayer(doc_spans, token_offset_mapping, strict_span_conversion)
       IN  /\ r.raised
           /\ token_doc' = [added_annotations |-> r.added]
    /\ pc' = "tok_raised"
    /\ UNCHANGED <<labels_per_layer, decVars, bcVars, grVars, text_len,
                   token_offset_mapping, strict_span_conversion, doc_spans, text_doc,
                   taskVars, tdVars, findVars, prepVars, batchVars, daVars, genVars, modelVars>>

\* token_based_document_to_text_based(token_doc) with the text and the offsets
\* saved in the metadata of the token document
TokenToTextBased ==
    /\ pc = "tok_done"
    /\ LET r == ConvertLayerBack(token_doc.labeled_spans, token_offset_mapping)
       IN  /\ ~r.raised
           /\ \E sorted \in SortedLayers(r.valid_spans) :
                 text_doc' = [labeled_spans |-> sorted,
                              override_annotations |-> r.override]
    /\ pc' = "text_done"
    /\ UNCHANGED <<labels_per_layer, decVars, bcVars, grVars, text_len,
                   token_offset_mapping, strict_span_conversion, doc_spans, token_doc,
                   taskVars, tdVars, findVars, prepVars, batchVars, daVars, genVars, modelVars>>

NextTokenization == TextToTokenBased \/ TextToTokenBasedRaise \/ TokenToTextBased

SpecTokenization == InitTokenization /\ [][NextTokenization]_vars

----------------------------------------------------------------------------
(* Specification of decode_annotations on outputs with several span labels *)

\* spans over two tokens with two of the span labels
OutputSpans ==
    {LabeledSpan(sp[1], sp[2], l) : sp \in {<<0, 1>>, <<1, 2>>}, l \in {"content", "person"}}

\* relations and loop relations over these spans, as the model puts them out
OutputTuples ==
    {RelationEncode(BinaryRelation(h, t, "is_about")).value : h \in OutputSpans, t \in OutputSpans}
    \cup {RelationEncode(BinaryRelation(sp, sp, loop_dummy_relation_name)).value :
             sp \in OutputSpans}

DecodeAnnotationsInputs ==
    {Concat(q) \o <<eos_id>> : q \in SeqsUpTo(OutputTuples, MaxOutputTuples)}

InitDecodeAnnotations ==
    /\ IdleModel
    /\ IdleGeneration
    /\ IdleBatch
    /\ IdlePrepare
    /\ IdleFind
    /\ IdleTokenizeDocument
    /\ IdleConstraints
    /\ IdleGrammar
    /\ IdleTokenization
    /\ IdleTask
    /\ labels_per_layer = FixtureLabels
    /\ pc = "decode_annotations"
    /\ label_ids \in DecodeAnnotationsInputs
    /\ pos = 0
    /\ current_encoding = DecodeInit.current_encoding
    /\ encodings = DecodeInit.encodings
    /\ errors = DecodeInit.errors
    /\ decoded_annotations = <<>>

\* lines 525-560: the layers and the errors are returned, or an exception of
\* decode_relations or the assertion of line 540 ends the call
DecodeAnnotations ==
    /\ pc = "decode_annotations"
    /\ \E r \in {decode_annotations(label_ids)} :
          IF r.raised
          THEN /\ pc' = "decode_annotations_raised"
               /\ UNCHANGED <<decoded_annotations, errors>>
          ELSE /\ pc' = "decode_annotations_done"
               /\ decoded_annotations' = r.layers
               /\ errors' = r.errors
    /\ UNCHANGED <<labels_per_layer, label_ids, pos, current_encoding, encodings,
                   bcVars, grVars, tokVars, taskVars, tdVars, findVars, prepVars, batchVars, genVars, modelVars>>

SpecDecodeAnnotations == InitDecodeAnnotations /\ [][DecodeAnnotations]_vars

----------------------------------------------------------------------------
(* Specification of collate and unbatch_output on the labels of a batch *)

\* taskmodules/common is not part of the sources at hand.  BatchableMixin.batch
\* for one field: every value is padded at the end with the pad value of the
\* field to the length of the longest value
BatchField(values, pad_value) ==
    LET max_len == CHOOSE n \in {Len(values[k]) : k \in DOMAIN values} :
                       \A k \in DOMAIN values : Len(values[k]) <= n
    IN  [k \in DOMAIN values |->
            values[k] \o [j \in 1..(max_len - Len(values[k])) |-> pad_value]]

\* get_first_occurrence_index for one row: the 0-based index of the first
\* occurrence of the value, or the length of the row
get_first_occurrence_index(row, value) ==
    IF \E j \in DOMAIN row : row[j] = value
    THEN (CHOOSE j \in DOMAIN row :
             row[j] = value /\ \A i \in 1..(j - 1) : row[i] # value) - 1
    ELSE Len(row)

\* lines 784-801, the labels of the targets: None if the first task encoding
\* has no targets
collate(targets_) ==
    IF targets_[1].is_none THEN None
    ELSE Some(BatchField([k \in DOMAIN targets_ |-> targets_[k].value.labels],
                         target_pad_id))

\* mutant: the sequence is cut before the first eos id
unbatch_output_BeforeEos(output) ==
    [i \in DOMAIN output |->
        [labels |-> PySlice(output[i], 0, get_first_occurrence_index(output[i], eos_id)),
         constraints |-> None]]

\* lines 803-818
unbatch_output(output) ==
    [i \in DOMAIN output |->
        [labels |-> PySlice(output[i], 0, get_first_occurrence_index(output[i], eos_id) + 1),
         constraints |-> None]]

\* label sequences of the task encodings of a batch, with the eos id anywhere
\* or nowhere; all task encodings have targets or none has
BatchTargets ==
    UNION {[1..n -> {Some([labels |-> l, constraints |-> None]) :
                        l \in SeqsUpTo({eos_id, none_id, pointer_offset}, MaxLabelLen) \ {<<>>}}]
              \cup {[k \in 1..n |-> None]} : n \in 0..MaxBatch}

InitBatch ==
    /\ IdleModel
    /\ IdleGeneration
    /\ IdleDecodeAnnotations
    /\ IdlePrepare
    /\ IdleFind
    /\ IdleTokenizeDocument
    /\ IdleDecode
    /\ IdleConstraints
    /\ IdleGrammar
    /\ IdleTokenization
    /\ labels_per_layer = SmallLabels
    /\ pc = "collate"
    /\ create_constraints = FALSE
    /\ log_first_n_examples = 0
    /\ task_encodings = <<>>
    /\ task_targets \in BatchTargets
    /\ task_yielded = <<>>
    /\ cursor = 0
    /\ model_output = <<>>
    /\ task_outputs = <<>>

\* lines 784-801 for a batch that is not empty
Collate ==
    /\ pc = "collate"
    /\ Len(task_targets) > 0
    /\ \E t \in {collate(task_targets)} :
          IF t.is_none
          THEN pc' = "collated_without_targets" /\ model_output' = model_output
          ELSE pc' = "unbatch_output" /\ model_output' = t.value
    /\ UNCHANGED <<labels_per_layer, decVars, bcVars, grVars, tokVars, taskVars, tdVars,
                   findVars, prepVars, task_outputs, daVars, genVars, modelVars>>

\* lines 785-786: ValueError("no task_encodings available")
CollateRaise ==
    /\ pc = "collate"
    /\ Len(task_targets) = 0
    /\ pc' = "collate_raised"
    /\ UNCHANGED <<labels_per_layer, decVars, bcVars, grVars, tokVars, taskVars, tdVars,
                   findVars, prepVars, batchVars, daVars, genVars, modelVars>>

\* unbatch_output on the label tensor of the batch
UnbatchOutput ==
    /\ pc = "unbatch_output"
    /\ task_outputs' = unbatch_output(model_output)
    /\ pc' = "unbatched"
    /\ UNCHANGED <<labels_per_layer, decVars, bcVars, grVars, tokVars, taskVars, tdVars,
                   findVars, prepVars, model_output, daVars, genVars, modelVars>>

NextBatch == Collate \/ CollateRaise \/ UnbatchOutput

SpecBatch == InitBatch /\ [][NextBatch]_vars

----------------------------------------------------------------------------
(* Specification of _build_constraint, called on a tuple prefix or by the
   generation callback on the ids generated so far *)

\* mutant: the ids before the first eos id
UnpaddedLabelIds_WithoutEos(input_ids_) ==
    LET ids == Tail(input_ids_)
        first == IF \E k \in 1..Len(ids) : ids[k] = eos_id
                 THEN CHOOSE k \in 1..Len(ids) :
                        ids[k] = eos_id /\ \A j \in 1..(k - 1) : ids[j] # eos_id
                 ELSE Len(ids) + 1
    IN SubSeq(ids, 1, first - 1)

\* lines 242-247: the ids after bos, cut after the first eos by unbatch_output
UnpaddedLabelIds(input_ids_) ==
    IF Len(Tail(input_ids_)) > 0
    THEN unbatch_output(<<Tail(input_ids_)>>)[1].labels
    ELSE <<>>

\* mutant: the closed tuples are not removed from the prefix
RemainingOf_WholePrefix(input_ids_) == UnpaddedLabelIds(input_ids_)

\* line 248: the leftover of decode_relations
RemainingOf(input_ids_) == decode_relations(UnpaddedLabelIds(input_ids_)).remaining

\* lines 253-256: torch.nonzero(constraint) as the set of allowed ids
AllowedIndices(mask) == {k \in DOMAIN mask : mask[k] # 0}

\* lines 239-256
_prefix_allowed_tokens_fn_with_maximum(input_ids_, maximum) ==
    AllowedIndices(_build_constraint(RemainingOf(input_ids_), maximum - pointer_offset))

\* prefixes handed to _build_constraint: short arbitrary lists, every prefix
\* of a possibly malformed tuple, and a tuple followed by one more id
ConstraintPrefixes ==
    SeqsUpTo(StreamIds(MaxPtr), MaxFreeLen)
    \cup {SubSeq(t, 1, k) : t \in PerturbedTuples(MaxPtr), k \in 0..7}
    \cup {t \o <<v>> : t \in GoldTuples(MaxPtr), v \in StreamIds(MaxPtr)}
    \cup {t \o <<eos_id, v>> : t \in GoldTuples(MaxPtr), v \in StreamIds(MaxPtr)}

InitConstraintRow ==
    /\ IdleModel
    /\ IdleDecodeAnnotations
    /\ IdleBatch
    /\ IdlePrepare
    /\ IdleFind
    /\ IdleTokenizeDocument
    /\ IdleDecode
    /\ IdleGrammar
    /\ IdleTokenization
    /\ IdleTask
    /\ labels_per_layer = SmallLabels
    /\ input_len \in 1..MaxInputLen
    /\ target_ids = <<>>
    /\ constraints = <<>>
    /\ constraint = <<>>
    /\ \/ /\ pc = "build_constraint"
          /\ input_ids = <<>>
          /\ remaining \in ConstraintPrefixes
       \/ /\ pc = "prefix_allowed_tokens"
          /\ input_ids \in {<<bos_id>> \o p : p \in ConstraintPrefixes}
          /\ remaining = <<>>

\* lines 562-629
BuildConstraint ==
    /\ pc = "build_constraint"
    /\ constraint' = _build_constraint(remaining, input_len)
    /\ pc' = "build_constraint_done"
    /\ UNCHANGED <<labels_per_layer, decVars, bcVars, grVars, tokVars, taskVars, tdVars,
                   findVars, prepVars, batchVars, daVars, input_ids, remaining, modelVars>>

\* lines 239-256 with maximum = input_len + pointer_offset
PrefixAllowedTokens ==
    /\ pc = "prefix_allowed_tokens"
    /\ \E r \in {RemainingOf(input_ids)} :
          /\ remaining' = r
          /\ constraint' = _build_constraint(r, (input_len + pointer_offset) - pointer_offset)
    /\ pc' = "prefix_allowed_tokens_done"
    /\ UNCHANGED <<labels_per_layer, decVars, bcVars, grVars, tokVars, taskVars, tdVars,
                   findVars, prepVars, batchVars, daVars, input_ids, modelVars>>

SpecConstraintRow == InitConstraintRow /\ [][BuildConstraint \/ PrefixAllowedTokens]_vars

----------------------------------------------------------------------------
(* Specification of the constrained generation: the callback that
   configure_model_generation installs is asked for the allowed ids of the
   prefix, one of them is appended, and so on up to the maximal length *)

InitGeneration ==
    /\ IdleModel
    /\ IdleDecodeAnnotations
    /\ IdleBatch
    /\ IdlePrepare
    /\ IdleFind
    /\ IdleTokenizeDocument
    /\ IdleDecode
    /\ IdleGrammar
    /\ IdleTokenization
    /\ IdleTask
    /\ labels_per_layer = SmallLabels
    /\ input_len \in 1..MaxInputLen
    /\ target_ids = <<>>
    /\ constraints = <<>>
    /\ pc = "prefix_allowed_tokens"
    /\ input_ids = <<bos_id>>
    /\ remaining = <<>>
    /\ constraint = <<>>

\* the generation keeps only the ids that prefix_allowed_tokens_fn returned
\* and appends one of them
GenerateToken ==
    /\ pc = "prefix_allowed_tokens_done"
    /\ Len(input_ids) < MaxGeneratedLen + 1
    /\ \E id \in AllowedIndices(constraint) : input_ids' = Append(input_ids, id)
    /\ pc' = "prefix_allowed_tokens"
    /\ UNCHANGED <<labels_per_layer, decVars, bcVars, grVars, tokVars, taskVars, tdVars,
                   findVars, prepVars, batchVars, daVars, remaining, constraint, modelVars>>

SpecGeneration == InitGeneration /\ [][PrefixAllowedTokens \/ GenerateToken]_vars

----------------------------------------------------------------------------
(* Specification of prepare: _prepare, then _post_prepare *)

\* the order of Python strings on the labels used here
LabelOrder == <<"</s>", "<s>", "content", "is_about", "none", "person", "topic">>
LabelRank(l) == CHOOSE k \in DOMAIN LabelOrder : LabelOrder[k] = l

\* sorted(labels) of a set of labels
RECURSIVE SortedLabels(_)
SortedLabels(S) ==
    IF S = {} THEN <<>>
    ELSE LET least == CHOOSE l \in S : \A m \in S : LabelRank(l) <= LabelRank(m)
         IN  <<least>> \o SortedLabels(S \ {least})

\* exclude_labels_per_layer of the constructor (default: nothing excluded)
exclude_labels_per_layer == [labeled_spans |-> {}, binary_relations |-> {}]

\* lines 260-266: the labels of a layer over all documents
CollectedLabels(docs, layer_name) ==
    UNION {docs[d][layer_name] \ exclude_labels_per_layer[layer_name] : d \in DOMAIN docs}

\* line 287: len(set(self.labels)) != len(self.labels)
LabelsNotUnique == Cardinality(Range(labels)) # Len(labels)

PrepareSpanLabels == {"content", "person", "topic", "none", "<s>"}
PrepareRelationLabels == {"is_about", "content", "</s>"}
PrepareDocuments ==
    SeqsUpTo([labeled_spans : {S \in SUBSET PrepareSpanLabels :
                                  Cardinality(S) <= MaxDocSpanLabels},
              binary_relations : {S \in SUBSET PrepareRelationLabels :
                                     Cardinality(S) <= MaxDocRelationLabels}],
             MaxDocuments)

InitPrepare ==
    /\ IdleModel
    /\ IdleGeneration
    /\ IdleDecodeAnnotations
    /\ IdleBatch
    /\ IdleFind
    /\ IdleTokenizeDocument
    /\ IdleDecode
    /\ IdleConstraints
    /\ IdleGrammar
    /\ IdleTokenization
    /\ IdleTask
    /\ labels_per_layer = None
    /\ pc = "prepare"
    /\ documents \in PrepareDocuments

\* lines 258-272
Prepare ==
    /\ pc = "prepare"
    /\ labels_per_layer' =
           [labeled_spans |-> SortedLabels(CollectedLabels(documents, span_layer_name)),
            binary_relations |-> SortedLabels(CollectedLabels(documents, relation_layer_name))]
    /\ pc' = "post_prepare"
    /\ UNCHANGED <<decVars, bcVars, grVars, tokVars, taskVars, tdVars, findVars, prepVars, batchVars, daVars, genVars, modelVars>>

\* lines 280-338 without the exception of line 288: targets and ids are the
\* definitions derived from labels_per_layer
PostPrepare ==
    /\ pc = "post_prepare"
    /\ ~LabelsNotUnique
    /\ pc' = "prepared"
    /\ UNCHANGED <<labels_per_layer, decVars, bcVars, grVars, tokVars, taskVars, tdVars,
                   findVars, prepVars, batchVars, daVars, genVars, modelVars>>

\* line 288: raise Exception("labels are not unique")
PostPrepareRaise ==
    /\ pc = "post_prepare"
    /\ LabelsNotUnique
    /\ pc' = "prepare_raised"
    /\ UNCHANGED <<labels_per_layer, decVars, bcVars, grVars, tokVars, taskVars, tdVars,
                   findVars, prepVars, batchVars, daVars, genVars, modelVars>>

NextPrepare == Prepare \/ PostPrepare \/ PostPrepareRaise

SpecPrepare == InitPrepare /\ [][NextPrepare]_vars

----------------------------------------------------------------------------
(* find_token_offset_mapping, one token per step *)

\* str.find(sub, start_) on sequences of characters: the lowest 0-based index
\* at or after start_ where sub occurs, or -1
PyFind_FromZero(str, sub, start_) ==
    LET found == {p \in 0..(Len(str) - Len(sub)) :
                     SubSeq(str, p + 1, p + Len(sub)) = sub}
    IN  IF found = {} THEN -1 ELSE CHOOSE p \in found : \A q \in found : p <= q
PyFind(str, sub, start_) ==
    LET found == {p \in start_..(Len(str) - Len(sub)) :
                     SubSeq(str, p + 1, p + Len(sub)) = sub}
    IN  IF found = {} THEN -1 ELSE CHOOSE p \in found : \A q \in found : p <= q

ExampleText ==
    <<"T", "h", "i", "s", " ", "i", "s", " ", "a", " ", "d", "u", "m", "m", "y", " ",
      "t", "e", "x", "t", " ", "a", "b", "o", "u", "t", " ",
      "n", "o", "t", "h", "i", "n", "g", ".">>
ExampleTokens ==
    <<<<"T", "h", "i", "s">>, <<"i", "s">>, <<"a">>, <<"d", "u", "m", "m", "y">>,
      <<"t", "e", "x", "t">>>>

FindAlphabet == {"a", "b"}
FindTexts == SeqsUpTo(FindAlphabet, MaxFindTextLen)
FindTokens == SeqsUpTo(SeqsUpTo(FindAlphabet, MaxFindTokenLen) \ {<<>>}, MaxFindTokens)

InitFind ==
    /\ IdleModel
    /\ IdleGeneration
    /\ IdleDecodeAnnotations
    /\ IdleBatch
    /\ IdlePrepare
    /\ IdleTokenizeDocument
    /\ IdleDecode
    /\ IdleConstraints
    /\ IdleGrammar
    /\ IdleTask
    /\ labels_per_layer = SmallLabels
    /\ pc = "find_loop"
    /\ text_len = 0
    /\ strict_span_conversion = FALSE
    /\ doc_spans = <<>>
    /\ token_doc = <<>>
    /\ text_doc = <<>>
    /\ \/ text \in FindTexts /\ tokens \in FindTokens
       \/ text = ExampleText /\ tokens = ExampleTokens
    /\ token_offset_mapping = <<>>
    /\ start = 0

\* lines 47-54: one iteration of the loop over the tokens
FindTokenOffset ==
    /\ pc = "find_loop"
    /\ Len(token_offset_mapping) < Len(tokens)
    /\ \E token \in {tokens[Len(token_offset_mapping) + 1]} :
       \E new_start \in {PyFind(text, token, start)} :
          IF new_start = -1
          THEN /\ token_offset_mapping' = Append(token_offset_mapping, <<start, start>>)
               /\ start' = start
          ELSE /\ token_offset_mapping' =
                      Append(token_offset_mapping, <<new_start, new_start + Len(token)>>)
               /\ start' = new_start + Len(token)
    /\ UNCHANGED <<labels_per_layer, pc, decVars, bcVars, grVars, taskVars, tdVars,
                   text_len, strict_span_conversion, doc_spans, token_doc, text_doc,
                   text, tokens, prepVars, batchVars, daVars, genVars, modelVars>>

\* line 55
FindReturn ==
    /\ pc = "find_loop"
    /\ Len(token_offset_mapping) = Len(tokens)
    /\ pc' = "find_done"
    /\ UNCHANGED <<labels_per_layer, decVars, bcVars, grVars, tokVars, taskVars, tdVars,
                   findVars, prepVars, batchVars, daVars, genVars, modelVars>>

NextFind == FindTokenOffset \/ FindReturn

SpecFind == InitFind /\ [][NextFind]_vars

----------------------------------------------------------------------------
(* Specification of tokenize_document, one partition per step *)

\* offsets of the word tokens of a text of n characters: in text order, not
\* overlapping, characters between them (whitespace) in no token
WordOffsets(n) ==
    {m \in SeqsUpTo({o \in (0..(n - 1)) \X (1..n) : o[1] < o[2]}, MaxTokens) :
        \A i \in 1..(Len(m) - 1) : m[i][2] <= m[i + 1][1]}

\* batch_encoding.offsets with the special tokens at both ends set to (0, 0)
EncodingOffsets(n) == {<<<<0, 0>>>> \o m \o <<<<0, 0>>>> : m \in WordOffsets(n)}

\* tokenized_text.encodings of a text of n characters
TokenizerOutputs(n) ==
    UNION {[1..k -> EncodingOffsets(n)] : k \in 1..MaxEncodings}

\* partition layers: no partition layer, or partitions in text order that do
\* not overlap
PartitionLayers(n) ==
    {None} \cup
    {Some(l) : l \in {q \in SeqsUpTo([start : 0..(n - 1), end : 1..n, label : {"sentence"}],
                                     MaxPartitions) :
                         /\ \A i \in DOMAIN q : q[i].start < q[i].end
                         /\ \A i \in 1..(Len(q) - 1) : q[i].end <= q[i + 1].start}}

\* span layers in the order of span_sort_key
SortedSpanLayers(n) ==
    {l \in SpanLayers(n) :
        \A i \in 1..(Len(l) - 1) : SpanSortKeyLeq(l[i], l[i + 1])}

InitTokenizeDocument ==
    /\ IdleModel
    /\ IdleGeneration
    /\ IdleDecodeAnnotations
    /\ IdleBatch
    /\ IdlePrepare
    /\ IdleFind
    /\ IdleDecode
    /\ IdleConstraints
    /\ IdleGrammar
    /\ IdleTask
    /\ labels_per_layer = SmallLabels
    /\ pc = "td_loop"
    /\ text_len = MaxTextLen
    /\ token_offset_mapping = <<>>
    /\ token_doc = <<>>
    /\ text_doc = <<>>
    /\ strict_span_conversion \in BOOLEAN
    /\ doc_spans \in SortedSpanLayers(text_len)
    /\ partition_layer \in PartitionLayers(text_len)
    /\ partition_idx = 1
    /\ tokenized_texts = <<>>
    /\ td_result = <<>>
    /\ added_annotations = [labeled_spans |-> <<>>, labeled_partitions |-> <<>>]

\* lines 347-384: the body of the loop over the partitions, with the
\* encodings the tokenizer returns for the text of the partition; each token
\* document is recorded with the spans its conversion appended to
\* added_annotations
TokenizePartition ==
    /\ pc = "td_loop"
    /\ partition_idx <= Len(Partitions(partition_layer, text_len))
    /\ \E partition \in {Partitions(partition_layer, text_len)[partition_idx]} :
       \E tokenized_text \in TokenizerOutputs(partition.end - partition.start) :
       \E docs \in {[k \in DOMAIN tokenized_text |->
                       TokenizedDocument(doc_spans, partition_layer,
                                         tokenized_text[k], partition)]} :
          /\ tokenized_texts' = Append(tokenized_texts, tokenized_text)
          /\ td_result' = td_result \o
                 [k \in DOMAIN docs |->
                     [token_offset_mapping |-> docs[k].token_offset_mapping,
                      labeled_spans |-> docs[k].labeled_spans.valid_spans,
                      labeled_partitions |-> docs[k].labeled_partitions.valid_spans,
                      added |-> docs[k].labeled_spans.added]]
          /\ added_annotations' = AddedAfter(added_annotations, docs)
    /\ partition_idx' = partition_idx + 1
    /\ UNCHANGED <<labels_per_layer, pc, decVars, bcVars, grVars, tokVars, taskVars,
                   partition_layer, findVars, prepVars, batchVars, daVars, genVars, modelVars>>

\* lines 386-417 with no missed annotation, or without strict_span_conversion
TokenizeDocumentReturn ==
    /\ pc = "td_loop"
    /\ partition_idx > Len(Partitions(partition_layer, text_len))
    /\ ~strict_span_conversion \/ MissedAnnotations(doc_spans, added_annotations) = {}
    /\ pc' = "td_done"
    /\ UNCHANGED <<labels_per_layer, decVars, bcVars, grVars, tokVars, taskVars, tdVars, findVars, prepVars, batchVars, daVars, genVars, modelVars>>

\* line 403: the ValueError for missed annotations
TokenizeDocumentRaise ==
    /\ pc = "td_loop"
    /\ partition_idx > Len(Partitions(partition_layer, text_len))
    /\ strict_span_conversion
    /\ MissedAnnotations(doc_spans, added_annotations) # {}
    /\ pc' = "td_raised"
    /\ UNCHANGED <<labels_per_layer, decVars, bcVars, grVars, tokVars, taskVars, tdVars, findVars, prepVars, batchVars, daVars, genVars, modelVars>>

NextTokenizeDocument ==
    TokenizePartition \/ TokenizeDocumentReturn \/ TokenizeDocumentRaise

SpecTokenizeDocument == InitTokenizeDocument /\ [][NextTokenizeDocument]_vars

----------------------------------------------------------------------------
(* Specification of the task module working through a batch of task
   encodings: encode_target for each, create_annotations_from_output for each
   with an output of the model, encode_target for each again *)

\* offsets of the tokens of a tokenized document: <s>, two words, </s>
TaskOffsets == <<<<0, 0>>, <<0, 2>>, <<3, 5>>, <<0, 0>>>>

\* gold token spans: over the word tokens, one with a label that is not prepared
TaskSpans ==
    {LabeledSpan(1, 2, "content"), LabeledSpan(2, 3, "content"), LabeledSpan(2, 3, "other")}

\* tokenized documents: distinct spans, relations between spans of the document
TokenizedDocuments ==
    {[labeled_spans |-> sps, binary_relations |-> rels, token_offset_mapping |-> TaskOffsets] :
        sps \in {l \in SeqsUpTo(TaskSpans, MaxTaskSpans) :
                    \A i \in DOMAIN l : \A j \in DOMAIN l : i # j => l[i] # l[j]},
        rels \in SeqsUpTo([head : TaskSpans, tail : TaskSpans, label : DocRelationLabels],
                          MaxTaskRelations)}

TaskDocuments ==
    {d \in TokenizedDocuments :
        \A k \in DOMAIN d.binary_relations :
            /\ d.binary_relations[k].head \in Range(d.labeled_spans)
            /\ d.binary_relations[k].tail \in Range(d.labeled_spans)}

\* outputs of the model: no annotation, a relation, a span that points behind
\* the tokens of the document
TaskOutputs ==
    {<<eos_id>>,
     RelationEncode(BinaryRelation(LabeledSpan(1, 2, "content"), LabeledSpan(2, 3, "content"),
                                   "is_about")).value \o <<eos_id>>,
     RelationEncode(BinaryRelation(LabeledSpan(4, 5, "content"), LabeledSpan(4, 5, "content"),
                                   loop_dummy_relation_name)).value \o <<eos_id>>}

InitTask ==
    /\ IdleModel
    /\ IdleGeneration
    /\ IdleDecodeAnnotations
    /\ IdleBatch
    /\ IdlePrepare
    /\ IdleFind
    /\ IdleTokenizeDocument
    /\ IdleDecode
    /\ IdleConstraints
    /\ IdleGrammar
    /\ IdleTokenization
    /\ labels_per_layer = SmallLabels
    /\ pc = "encode_targets"
    /\ create_constraints \in BOOLEAN
    /\ log_first_n_examples = 1
    /\ task_encodings \in UNION {[1..n -> TaskDocuments] : n \in 1..MaxBatch}
    /\ task_targets = [k \in DOMAIN task_encodings |-> None]
    /\ task_yielded = [k \in DOMAIN task_encodings |-> {}]
    /\ cursor = 1

\* the batch loop goes on with the next task encoding or the next phase
Advance(next_pc) ==
    IF cursor < Len(task_encodings)
    THEN cursor' = cursor + 1 /\ pc' = pc
    ELSE cursor' = 1 /\ pc' = next_pc

\* encode_target(task_encodings[cursor]); the target is stored in the task
\* encoding.  maybe_log_example counts down after a target was built.
EncodeTarget ==
    /\ pc \in {"encode_targets", "encode_targets_again"}
    /\ \E r \in {encode_target(task_encodings[cursor])} :
           IF r.raised
           THEN /\ pc' = "encode_target_raised"
                /\ UNCHANGED <<task_targets, log_first_n_examples, cursor>>
           ELSE /\ task_targets' = [task_targets EXCEPT ![cursor] = r.value]
                /\ log_first_n_examples' =
                       IF ~r.value.is_none /\ log_first_n_examples > 0
                       THEN log_first_n_examples - 1 ELSE log_first_n_examples
                /\ Advance(IF pc = "encode_targets" THEN "create_annotations" ELSE "batch_done")
    /\ UNCHANGED <<labels_per_layer, decVars, bcVars, grVars, tokVars,
                   create_constraints, task_encodings, task_yielded, tdVars, findVars, prepVars, batchVars, daVars, genVars, modelVars>>

\* create_annotations_from_output(task_encodings[cursor], task_output) yields
\* the annotations ...
CreateAnnotationsFromOutput ==
    /\ pc = "create_annotations"
    /\ \E task_output \in TaskOutputs :
          \E r \in {create_annotations_from_output(task_encodings[cursor], task_output)} :
              /\ ~r.raised
              /\ task_encodings' = [task_encodings EXCEPT ![cursor] = r.tokenized_document]
              /\ task_yielded' = [task_yielded EXCEPT ![cursor] = r.yielded]
    /\ Advance("encode_targets_again")
    /\ UNCHANGED <<labels_per_layer, decVars, bcVars, grVars, tokVars,
                   create_constraints, log_first_n_examples, task_targets, tdVars, findVars, prepVars, batchVars, daVars, genVars, modelVars>>

\* ... or raises, after the layers were written
CreateAnnotationsFromOutputRaise ==
    /\ pc = "create_annotations"
    /\ \E task_output \in TaskOutputs :
          \E r \in {create_annotations_from_output(task_encodings[cursor], task_output)} :
              /\ r.raised
              /\ task_encodings' = [task_encodings EXCEPT ![cursor] = r.tokenized_document]
    /\ pc' = "create_annotations_raised"
    /\ UNCHANGED <<labels_per_layer, decVars, bcVars, grVars, tokVars,
                   create_constraints, log_first_n_examples, task_targets,
                   task_yielded, cursor, tdVars, findVars, prepVars, batchVars, daVars, genVars, modelVars>>

NextTask == EncodeTarget \/ CreateAnnotationsFromOutput \/ CreateAnnotationsFromOutputRaise

SpecTask == InitTask /\ [][NextTask]_vars

----------------------------------------------------------------------------
(* Specification of encode_target with constraints on gold documents whose
   relation arguments are disjoint, nested, overlapping or equal *)

\* offsets of <s> ab cd ef </s>
GoldTaskOffsets == <<<<0, 0>>, <<0, 2>>, <<3, 5>>, <<6, 8>>, <<0, 0>>>>

\* gold token spans over the three word tokens, all with the prepared label
GoldTaskSpans ==
    {LabeledSpan(1, 2, "content"), LabeledSpan(1, 3, "content"),
     LabeledSpan(2, 4, "content"), LabeledSpan(3, 4, "content")}

GoldTaskDocuments ==
    {d \in {[labeled_spans |-> sps, binary_relations |-> rels,
             token_offset_mapping |-> GoldTaskOffsets] :
               sps \in {l \in SeqsUpTo(GoldTaskSpans, MaxTaskSpans) :
                           \A i \in DOMAIN l : \A j \in DOMAIN l : i # j => l[i] # l[j]},
               rels \in SeqsUpTo([head : GoldTaskSpans, tail : GoldTaskSpans,
                                  label : DocRelationLabels], MaxTaskRelations)} :
        \A k \in DOMAIN d.binary_relations :
            /\ d.binary_relations[k].head \in Range(d.labeled_spans)
            /\ d.binary_relations[k].tail \in Range(d.labeled_spans)}

InitGoldConstraints ==
    /\ IdleModel
    /\ IdleGeneration
    /\ IdleDecodeAnnotations
    /\ IdleBatch
    /\ IdlePrepare
    /\ IdleFind
    /\ IdleTokenizeDocument
    /\ IdleDecode
    /\ IdleConstraints
    /\ IdleGrammar
    /\ IdleTokenization
    /\ labels_per_layer = SmallLabels
    /\ pc = "encode_targets"
    /\ create_constraints = TRUE
    /\ log_first_n_examples = 1
    /\ task_encodings \in [1..1 -> GoldTaskDocuments]
    /\ task_targets = [k \in DOMAIN task_encodings |-> None]
    /\ task_yielded = [k \in DOMAIN task_encodings |-> {}]
    /\ cursor = 1

SpecGoldConstraints == InitGoldConstraints /\ [][EncodeTarget]_vars

----------------------------------------------------------------------------
(* Specification of SimplePointerNetworkModel: predict and the steps of the
   trainer on the training flag of the module *)

STAGE_TRAIN == "train"
STAGE_VAL == "val"
STAGE_TEST == "test"
Stages == {STAGE_TRAIN, STAGE_VAL, STAGE_TEST}

\* metric_intervals or {}: a dictionary over some of the stages
MetricIntervals ==
    UNION {[S -> 1..MaxMetricInterval] : S \in {{}, {STAGE_VAL}, {STAGE_TRAIN, STAGE_VAL}}}

\* self.metric_intervals.get(stage, 1)
MetricInterval(stage_) ==
    IF stage_ \in DOMAIN metric_intervals THEN metric_intervals[stage_] ELSE 1

\* lines 164-166: the metrics of the stage are updated from predict
UsesPredict(stage_, batch_idx_) ==
    /\ stage_ \in metric_splits
    /\ (batch_idx_ + 1) % MetricInterval(stage_) = 0
    /\ stage_ \in use_prediction_for_metrics

\* mutant: the module is always put back into training mode
RestoredFlag_AlwaysTrain(is_training_, training_) == TRUE

\* lines 123-124: if is_training: self.train()
RestoredFlag(is_training_, training_) == IF is_training_ THEN TRUE ELSE training_

\* after construction the module is in training mode; the stages in
\* use_prediction_for_metrics are among metric_splits (lines 76-87)
InitModel ==
    /\ IdleGeneration
    /\ IdleDecodeAnnotations
    /\ IdleBatch
    /\ IdlePrepare
    /\ IdleFind
    /\ IdleTokenizeDocument
    /\ IdleDecode
    /\ IdleConstraints
    /\ IdleGrammar
    /\ IdleTokenization
    /\ IdleTask
    /\ labels_per_layer = SmallLabels
    /\ pc = "idle"
    /\ training = TRUE
    /\ is_training = FALSE
    /\ stage = ""
    /\ batch_idx = 0
    /\ metric_splits \in {{STAGE_VAL, STAGE_TEST}, Stages}
    /\ use_prediction_for_metrics \in SUBSET metric_splits
    /\ metric_intervals \in MetricIntervals

\* the trainer puts the module into training or evaluation mode between calls
\* (self.train() / self.eval() of torch.nn.Module)
SetMode ==
    /\ pc = "idle"
    /\ training' = ~training
    /\ UNCHANGED <<labels_per_layer, pc, decVars, bcVars, grVars, tokVars, taskVars, tdVars,
                   findVars, prepVars, batchVars, daVars, genVars, is_training, stage,
                   batch_idx, metric_splits, use_prediction_for_metrics, metric_intervals>>

\* lines 116-121: predict saves the flag, calls self.eval() and then generate
EnterPredict ==
    /\ is_training' = training
    /\ training' = FALSE
    /\ pc' = "generate"

\* predict_step (lines 133-136) calls predict
PredictStep ==
    /\ pc = "idle"
    /\ EnterPredict
    /\ UNCHANGED <<labels_per_layer, decVars, bcVars, grVars, tokVars, taskVars, tdVars,
                   findVars, prepVars, batchVars, daVars, genVars, stage, batch_idx,
                   metric_splits, use_prediction_for_metrics, metric_intervals>>

\* step (lines 143-172) with targets: the forward pass, then either the call
\* of predict or the prediction from the logits
Step ==
    /\ pc = "idle"
    /\ \E stage_ \in Stages, batch_idx_ \in 0..MaxBatchIdx :
          /\ stage' = stage_
          /\ batch_idx' = batch_idx_
          /\ IF UsesPredict(stage_, batch_idx_)
             THEN EnterPredict
             ELSE UNCHANGED <<pc, training, is_training>>
    /\ UNCHANGED <<labels_per_layer, decVars, bcVars, grVars, tokVars, taskVars, tdVars,
                   findVars, prepVars, batchVars, daVars, genVars,
                   metric_splits, use_prediction_for_metrics, metric_intervals>>

\* lines 145-146: step without targets raises
StepRaise ==
    /\ pc = "idle"
    /\ \E stage_ \in Stages, batch_idx_ \in 0..MaxBatchIdx :
          /\ stage' = stage_
          /\ batch_idx' = batch_idx_
    /\ pc' = "raised"
    /\ UNCHANGED <<labels_per_layer, decVars, bcVars, grVars, tokVars, taskVars, tdVars,
                   findVars, prepVars, batchVars, daVars, genVars, training, is_training,
                   metric_splits, use_prediction_for_metrics, metric_intervals>>

\* lines 121-129: generate returned a tensor, predict restores the flag and
\* returns (to step, which returns the loss, or to predict_step)
PredictReturn ==
    /\ pc = "generate"
    /\ training' = RestoredFlag(is_training, training)
    /\ pc' = "idle"
    /\ UNCHANGED <<labels_per_layer, decVars, bcVars, grVars, tokVars, taskVars, tdVars,
                   findVars, prepVars, batchVars, daVars, genVars, is_training, stage,
                   batch_idx, metric_splits, use_prediction_for_metrics, metric_intervals>>

\* lines 121-131: generate returned something else, predict restores the flag
\* and raises
PredictRaise ==
    /\ pc = "generate"
    /\ training' = RestoredFlag(is_training, training)
    /\ pc' = "raised"
    /\ UNCHANGED <<labels_per_layer, decVars, bcVars, grVars, tokVars, taskVars, tdVars,
                   findVars, prepVars, batchVars, daVars, genVars, is_training, stage,
                   batch_idx, metric_splits, use_prediction_for_metrics, metric_intervals>>

\* line 121: generate raises, nothing of predict runs after it
GenerateRaise ==
    /\ pc = "generate"
    /\ pc' = "generate_raised"
    /\ UNCHANGED <<labels_per_layer, decVars, bcVars, grVars, tokVars, taskVars, tdVars,
                   findVars, prepVars, batchVars, daVars, genVars, modelVars>>

NextModel ==
    \/ SetMode
    \/ PredictStep
    \/ Step
    \/ StepRaise
    \/ PredictReturn
    \/ PredictRaise
    \/ GenerateRaise

SpecModel == InitModel /\ [][NextModel]_vars

----------------------------------------------------------------------------
(* Claims about decode_relations (checked under SpecDecode) *)

\* the closing rule as the specification states it: the id at position p closes
\* a tuple that started after position q
RefCloses(ids, p, q) ==
    ids[p] \in relation_ids \/ (ids[p] = none_id /\ p - q = 7)

\* position of the last close among the first p ids (0 if none)
RECURSIVE RefLastClose(_, _)
RefLastClose(ids, p) ==
    IF p = 0 THEN 0
    ELSE LET q == RefLastClose(ids, p - 1)
         IN  IF RefCloses(ids, p, q) THEN p ELSE q

\* relations of the well-formed tuples among the tuples closed at positions
\* >= p, when the last close before p was at q
RECURSIVE RefRelations(_, _, _)
RefRelations(ids, p, q) ==
    IF p > Len(ids) THEN <<>>
    ELSE IF RefCloses(ids, p, q)
         THEN LET r == RelationDecode(SubSeq(ids, q + 1, p))
              IN  (IF r.ok THEN <<r.value>> ELSE <<>>) \o RefRelations(ids, p + 1, p)
         ELSE RefRelations(ids, p + 1, q)

\* C1: decode_relations never raises; a closed tuple that fails to decode is
\* counted under its reason code and the accumulator is reset; every well-formed
\* tuple of the list, before or after a malformed one, is returned.
C1_DecodeTolerant ==
    /\ [](pc # "decode_raised")
    /\ [][(pc = "decode_loop" /\ pos < Len(label_ids)) =>
            LET cur == Append(current_encoding, label_ids[pos + 1])
                r == RelationDecode(cur)
            IN  (RefCloses(label_ids, pos + 1, pos - Len(current_encoding)) /\ ~r.ok) =>
                    /\ r.exception = "DecodingException"
                    /\ errors' = [errors EXCEPT ![r.identifier] = @ + 1]
                    /\ current_encoding' = <<>>
                    /\ encodings' = encodings]_vars
    /\ [](pc = "decode_done" => encodings = RefRelations(label_ids, 1, 0))

\* a malformed first tuple was counted and the gold tuple after it was returned
C1_Witness ==
    /\ pc = "decode_done"
    /\ Len(label_ids) >= 14
    /\ ~RelationDecode(SubSeq(label_ids, 1, 7)).ok
    /\ RelationDecode(SubSeq(label_ids, 8, 14)).ok
    /\ RefLastClose(label_ids, 7) = 7
    /\ errors["len"] + errors["order"] + errors["label"] = 1
    /\ encodings = <<RelationDecode(SubSeq(label_ids, 8, 14)).value>>

\* C2: the tuple is closed exactly when the appended id is a relation-label id,
\* or the none id at length exactly 7; otherwise it stays open, and the ids
\* accumulated since the last close are returned unchanged as the leftover.
C2_ClosingRule ==
    /\ [][(pc = "decode_loop" /\ pos < Len(label_ids)) =>
            LET i == label_ids[pos + 1]
                n == Len(current_encoding) + 1
            IN  IF i \in relation_ids \/ (i = none_id /\ n = 7)
                THEN current_encoding' = <<>>
                ELSE current_encoding' = Append(current_encoding, i)]_vars
    /\ [](pc = "decode_done" =>
            current_encoding =
                SubSeq(label_ids, RefLastClose(label_ids, Len(label_ids)) + 1,
                       Len(label_ids)))

\* a loop tuple was closed by none at length 7, and the leftover holds a none id
\* that came at length 4..6 or beyond 7 without closing
C2_Witness ==
    /\ pc = "decode_done"
    /\ Len(encodings) = 1
    /\ encodings[1].label = loop_dummy_relation_name
    /\ none_id \in Range(current_encoding)
    /\ Len(current_encoding) >= 8


----------------------------------------------------------------------------
(* Claims about build_constraints (checked under SpecConstraints) *)

\* C3: in a returned matrix, every row before the final eos row has a 1 in the
\* column of the id chosen at its position; a target with a position whose row
\* (computed from the ids of the same tuple before it) disallows the chosen id
\* is never answered with a matrix.
C3_ChosenIdAllowed ==
    pc = "bc_done" =>
        \A i \in 1..(Len(target_ids) - 1) :
            LET t == target_ids[i]
                tuple_start == 7 * ((i - 1) \div 7)
                row == _build_constraint(SubSeq(target_ids, tuple_start + 1, i - 1),
                                         input_len)
            IN  /\ t \in DOMAIN constraints[i]
                /\ constraints[i][t] = 1
                /\ t \in DOMAIN row
                /\ row[t] = 1

\* a matrix was returned for a target of two tuples
C3_Witness ==
    /\ pc = "bc_done"
    /\ Len(target_ids) = 15
    /\ Len(constraints) = 15
    /\ constraints[8][target_ids[8]] = 1

----------------------------------------------------------------------------
(* Claims about the relation grammar (checked under SpecGrammar) *)

\* id of a label in the fixture vocabulary [<s>, </s>, none, content, person,
\* topic, is_about]
FixtureId(l) ==
    CASE l = "<s>" -> 0 [] l = "</s>" -> 1 [] l = "none" -> 2 [] l = "content" -> 3
      [] l = "person" -> 4 [] l = "topic" -> 5 [] l = "is_about" -> 6

ExampleRelation ==
    BinaryRelation(LabeledSpan(3, 5, "content"), LabeledSpan(1, 3, "topic"), "is_about")

\* C5: a relation is serialised tail first with inclusive span ends and the
\* pointer offset 7 of the fixture vocabulary; the example relation encodes
\* to [8, 9, 5, 10, 11, 3, 6].
C5_TailFirstEncoding ==
    (pc \in {"enc_done", "dec_done"} /\ relation.label # loop_dummy_relation_name) =>
        /\ pointer_offset = 7
        /\ encoded = <<7 + relation.tail.start, 7 + relation.tail.end - 1,
                       FixtureId(relation.tail.label),
                       7 + relation.head.start, 7 + relation.head.end - 1,
                       FixtureId(relation.head.label),
                       FixtureId(relation.label)>>
        /\ (relation = ExampleRelation => encoded = <<8, 9, 5, 10, 11, 3, 6>>)

\* the example relation was encoded
C5_Witness ==
    /\ pc = "enc_done"
    /\ relation = ExampleRelation
    /\ encoded = <<8, 9, 5, 10, 11, 3, 6>>

\* C6: decoding the 7 ids of an encoded relation returns the same relation
\* (head, tail, span labels, relation label), also for a loop relation.
C6_RoundTrip ==
    pc = "dec_done" =>
        /\ ~decoded.raised
        /\ decoded.encodings = <<relation>>
        /\ decoded.remaining = <<>>
        /\ \A k \in ErrorKeys : decoded.errors[k] = (IF k = KEY_INVALID_CORRECT THEN 1 ELSE 0)

\* a loop relation was encoded and decoded back
C6_Witness ==
    /\ pc = "dec_done"
    /\ relation.label = loop_dummy_relation_name
    /\ relation.head = relation.tail
    /\ decoded.encodings = <<relation>>


----------------------------------------------------------------------------
(* Claims about the span conversion *)

\* the token whose character range contains a character (0-based), stated on
\* the offsets
RefCovers(c) ==
    \E t \in DOMAIN token_offset_mapping :
        token_offset_mapping[t][1] <= c /\ c < token_offset_mapping[t][2]
RefTokenOf(c) ==
    (CHOOSE t \in DOMAIN token_offset_mapping :
        token_offset_mapping[t][1] <= c /\ c < token_offset_mapping[t][2]) - 1
RefUnmapped(S) == ~RefCovers(S.start) \/ ~RefCovers(S.end - 1)
RefTokenSpan(S) ==
    [start |-> RefTokenOf(S.start), end |-> RefTokenOf(S.end - 1) + 1, label |-> S.label]
RefFullyMapped(S) == \A c \in S.start..(S.end - 1) : RefCovers(c)
RefRoundTrip(S) == text_doc.override_annotations[token_doc.override_annotations[S]]
RefTokenStart(S) == token_offset_mapping[RefTokenOf(S.start) + 1][1]
RefTokenEnd(S) == token_offset_mapping[RefTokenOf(S.end - 1) + 1][2]

\* C9 as stated: after converting the spans of a document to token spans and
\* back over the same offsets, every span all of whose characters map to a
\* token comes back with exactly its original start and end.
C9_RoundTripExact ==
    pc = "text_done" =>
        \A k \in DOMAIN doc_spans :
            LET S == doc_spans[k]
            IN  RefFullyMapped(S) =>
                    /\ RefRoundTrip(S).start = S.start
                    /\ RefRoundTrip(S).end = S.end

\* C9 amended: such a span comes back as the span from the start offset of the
\* token of its first character to the end offset of the token of its last
\* character (end-1); it has exactly the original start and end if and only
\* if the span starts at the first character of a token and ends at the end
\* of a token.
C9_RoundTripTokenAligned ==
    pc = "text_done" =>
        \A k \in DOMAIN doc_spans :
            LET S == doc_spans[k]
            IN  RefFullyMapped(S) =>
                    /\ RefRoundTrip(S).start = RefTokenStart(S)
                    /\ RefRoundTrip(S).end = RefTokenEnd(S)
                    /\ RefRoundTrip(S).label = S.label
                    /\ (RefRoundTrip(S).start = S.start /\ RefRoundTrip(S).end = S.end)
                        <=> (S.start = RefTokenStart(S) /\ S.end = RefTokenEnd(S))

\* a span over two tokens that comes back exactly, next to one that is widened
\* to the boundaries of its token
C9_Witness ==
    /\ pc = "text_done"
    /\ \E k \in DOMAIN doc_spans :
          /\ RefFullyMapped(doc_spans[k])
          /\ RefTokenOf(doc_spans[k].start) # RefTokenOf(doc_spans[k].end - 1)
          /\ RefRoundTrip(doc_spans[k]) = doc_spans[k]
    /\ \E k \in DOMAIN doc_spans :
          /\ RefFullyMapped(doc_spans[k])
          /\ RefRoundTrip(doc_spans[k]) # doc_spans[k]

TokenDocReturned == pc \in {"tok_done", "text_done"}

\* C10: with strict_span_conversion the conversion raises exactly when a span
\* of the layer has its start character or its last character (end-1)
\* unmapped; without it the conversion returns, the unmapped spans are the
\* removed ones, none of them is added or has a token span in the result, and
\* every other span is converted to (token(start), token(end-1)+1).
C10_StrictAndLenient ==
    LET unmapped == {S \in Range(doc_spans) : RefUnmapped(S)}
        mapped == Range(doc_spans) \ unmapped
    IN  /\ pc = "tok_raised" => (strict_span_conversion /\ unmapped # {})
        /\ (TokenDocReturned /\ strict_span_conversion) => unmapped = {}
        /\ (pc # "tok_call" /\ ~strict_span_conversion) => TokenDocReturned
        /\ TokenDocReturned =>
              /\ token_doc.removed_annotations = unmapped
              /\ Range(token_doc.added_annotations) = mapped
              /\ DOMAIN token_doc.override_annotations = mapped
              /\ \A S \in mapped : token_doc.override_annotations[S] = RefTokenSpan(S)
              /\ Range(token_doc.labeled_spans) = {RefTokenSpan(S) : S \in mapped}

\* a lenient conversion that drops one span and converts another
C10_Witness ==
    /\ pc = "tok_done"
    /\ ~strict_span_conversion
    /\ token_doc.removed_annotations # {}
    /\ token_doc.labeled_spans # <<>>

----------------------------------------------------------------------------
(* Claims about the task module *)

\* C7 as stated: create_annotations_from_output leaves the span and relation
\* layers of the tokenized document of its task encoding as they were, and
\* encode_target on the task encoding afterwards gives the target it gave
\* before.
C7_GoldLayersKept ==
    /\ [][task_encodings' = task_encodings]_vars
    /\ [][pc = "encode_targets_again" => task_targets' = task_targets]_vars

\* a span whose label was not prepared cannot be encoded
RefHasUnpreparedSpan(tokenized_document) ==
    \E k \in DOMAIN tokenized_document.labeled_spans :
        tokenized_document.labeled_spans[k].label
            \notin Range(labels_per_layer[span_layer_name])

RefEncoded(tokenized_document) ==
    encode_annotations(tokenized_document, Len(tokenized_document.token_offset_mapping))

\* what a call of encode_target on task_encodings[cursor] may change
RefEncodeTargetStep ==
    pc \in {"encode_targets", "encode_targets_again"} =>
        /\ task_encodings' = task_encodings
        /\ \A j \in DOMAIN task_targets :
              j # cursor => task_targets'[j] = task_targets[j]
        /\ task_targets'[cursor].is_none <=> ~RefEncoded(task_encodings[cursor]).ok
        /\ RefHasUnpreparedSpan(task_encodings[cursor]) => task_targets'[cursor].is_none
        /\ ~task_targets'[cursor].is_none =>
              task_targets'[cursor].value = RefEncoded(task_encodings[cursor]).value

\* C8: encode_target never raises; a call stores None for its task encoding
\* exactly if encoding its annotations or building its constraints raises
\* (as it does for a span with a label that was not prepared), otherwise the
\* target of that task encoding alone; the targets of the other task
\* encodings of the batch and all tokenized documents stay as they are.
C8_NoPropagation ==
    /\ [](pc # "encode_target_raised")
    /\ [][RefEncodeTargetStep]_vars

\* a batch of two whose first task encoding got no target because its
\* constraints could not be built, and whose second got a target with a tuple
C8_Witness ==
    /\ pc = "create_annotations"
    /\ cursor = 1
    /\ Len(task_encodings) = 2
    /\ create_constraints
    /\ ~RefHasUnpreparedSpan(task_encodings[1])
    /\ task_targets[1].is_none
    /\ ~task_targets[2].is_none
    /\ Len(task_targets[2].value.labels) > 1

----------------------------------------------------------------------------
(* Claims on tokenize_document *)

\* a character is inside the character range of a token of the offsets
RefCoveredBy(mapping, c) ==
    \E t \in DOMAIN mapping : mapping[t][1] <= c /\ c < mapping[t][2]
\* a span is carried over into a token document: its first and its last
\* character are inside tokens of the document
RefCarriedInto(S, k) ==
    /\ RefCoveredBy(td_result[k].token_offset_mapping, S.start)
    /\ RefCoveredBy(td_result[k].token_offset_mapping, S.end - 1)
RefCarried(S) == \E k \in DOMAIN td_result : RefCarriedInto(S, k)
RefAllProcessed ==
    /\ partition_idx = Len(Partitions(partition_layer, text_len)) + 1
    /\ Len(tokenized_texts) = Len(Partitions(partition_layer, text_len))
    /\ Len(td_result) = Len(Concat(tokenized_texts))
RefTokenizeDocumentEnds ==
    (pc = "td_loop" /\ RefAllProcessed) =>
        /\ pc' \in {"td_done", "td_raised"}
        /\ pc' = "td_raised" <=>
               (strict_span_conversion /\ \E S \in Range(doc_spans) : ~RefCarried(S))
        /\ td_result' = td_result

RefPartitionIndex(k) ==
    CHOOSE p \in DOMAIN tokenized_texts :
        /\ Len(Concat(SubSeq(tokenized_texts, 1, p - 1))) < k
        /\ k <= Len(Concat(SubSeq(tokenized_texts, 1, p)))
RefPartitionOf(k) == Partitions(partition_layer, text_len)[RefPartitionIndex(k)]
RefInside(S, partition) == partition.start <= S.start /\ S.end <= partition.end
RefTokenIn(mapping, c) ==
    (CHOOSE t \in DOMAIN mapping : mapping[t][1] <= c /\ c < mapping[t][2]) - 1
RefTokenSpanIn(S, k) ==
    [start |-> RefTokenIn(td_result[k].token_offset_mapping, S.start),
     end |-> RefTokenIn(td_result[k].token_offset_mapping, S.end - 1) + 1,
     label |-> S.label]
RefOnePerEncoding ==
    /\ Len(tokenized_texts) = partition_idx - 1
    /\ Len(td_result) = Len(Concat(tokenized_texts))
RefOffsetsShifted ==
    \A k \in DOMAIN td_result :
        LET encoding == Concat(tokenized_texts)[k]
        IN  /\ Len(td_result[k].token_offset_mapping) = Len(encoding)
            /\ \A t \in DOMAIN encoding :
                  /\ td_result[k].token_offset_mapping[t][1]
                         = encoding[t][1] + RefPartitionOf(k).start
                  /\ td_result[k].token_offset_mapping[t][2]
                         = encoding[t][2] + RefPartitionOf(k).start

\* C12 as stated: with a partition layer there is one token document per
\* encoding of each partition, its offsets are shifted by the partition
\* start, and the spans carried into it are exactly the spans of the document
\* that lie inside the character range of its partition.
C12_CarriedIffInsidePartition ==
    ~partition_layer.is_none =>
        /\ RefOnePerEncoding
        /\ RefOffsetsShifted
        /\ \A k \in DOMAIN td_result :
              Range(td_result[k].added)
                  = {S \in Range(doc_spans) : RefInside(S, RefPartitionOf(k))}

\* C12 amended: the spans carried into a token document are exactly the spans
\* whose first and last character are inside tokens of its encoding; they all
\* lie inside the character range of the partition and become the token spans
\* of the document, and the union over all token documents is the set of spans
\* with this property for some encoding.
C12_CarriedIffCoveredByEncoding ==
    ~partition_layer.is_none =>
        /\ RefOnePerEncoding
        /\ RefOffsetsShifted
        /\ \A k \in DOMAIN td_result :
              /\ Range(td_result[k].added)
                     = {S \in Range(doc_spans) : RefCarriedInto(S, k)}
              /\ \A S \in Range(td_result[k].added) : RefInside(S, RefPartitionOf(k))
              /\ td_result[k].labeled_spans
                     = {RefTokenSpanIn(S, k) : S \in Range(td_result[k].added)}
        /\ Range(added_annotations.labeled_spans)
               = {S \in Range(doc_spans) : RefCarried(S)}

\* reached: two partitions are tokenized, the second one does not start at
\* character 0 and a span is carried into its token document, and a span
\* inside the first partition is not carried into the token document of it
C12_Witness ==
    /\ ~partition_layer.is_none
    /\ pc = "td_done"
    /\ Len(tokenized_texts) = 2
    /\ \E k \in DOMAIN td_result :
          /\ RefPartitionIndex(k) = 2
          /\ RefPartitionOf(k).start > 0
          /\ td_result[k].added # <<>>
    /\ \E k \in DOMAIN td_result : \E S \in Range(doc_spans) :
          /\ RefPartitionIndex(k) = 1
          /\ RefInside(S, RefPartitionOf(k))
          /\ S \notin Range(td_result[k].added)

----------------------------------------------------------------------------
(* Claims on find_token_offset_mapping *)

\* the token occurs in the text at the 0-based position p
RefOccursAt(token, p) ==
    /\ p + Len(token) <= Len(text)
    /\ \A i \in 1..Len(token) : text[p + i] = token[i]
\* p is the first occurrence of the token at or after the cursor
RefFirstOccurrence(token, p) ==
    /\ p >= start
    /\ RefOccursAt(token, p)
    /\ \A q \in start..(p - 1) : ~RefOccursAt(token, q)
RefScanStep ==
    pc = "find_loop" /\ Len(token_offset_mapping') = Len(token_offset_mapping) + 1 =>
        LET token == tokens[Len(token_offset_mapping) + 1]
            offsets == token_offset_mapping'[Len(token_offset_mapping')]
        IN  /\ SubSeq(token_offset_mapping', 1, Len(token_offset_mapping))
                   = token_offset_mapping
            /\ \A p \in 0..Len(text) :
                  RefFirstOccurrence(token, p) =>
                      offsets = <<p, p + Len(token)>> /\ start' = p + Len(token)
            /\ (\A p \in start..Len(text) : ~RefOccursAt(token, p)) =>
                      offsets = <<start, start>> /\ start' = start

\* C13: every step of the scan gives the next token the offset of its first
\* occurrence at or after the cursor and moves the cursor to its end, or, if
\* there is none, the zero-width offset at the cursor, which stays; the
\* offsets are in non-decreasing order and do not overlap, and the example
\* text and tokens give [(0,4),(5,7),(8,9),(10,15),(16,20)].
C13_CursorScan ==
    /\ [][RefScanStep]_vars
    /\ [](\A i \in DOMAIN token_offset_mapping :
            /\ token_offset_mapping[i][1] <= token_offset_mapping[i][2]
            /\ \A j \in DOMAIN token_offset_mapping :
                  i < j => token_offset_mapping[i][2] <= token_offset_mapping[j][1])
    /\ []((pc = "find_done" /\ text = ExampleText /\ tokens = ExampleTokens) =>
            token_offset_mapping = <<<<0, 4>>, <<5, 7>>, <<8, 9>>, <<10, 15>>, <<16, 20>>>>)

\* reached: a scan has returned in which a token with no occurrence after the
\* cursor, but one before it, got a zero-width offset and a later token was
\* found
C13_Witness ==
    /\ pc = "find_done"
    /\ \E i, j \in DOMAIN token_offset_mapping :
          /\ i < j
          /\ token_offset_mapping[i][1] = token_offset_mapping[i][2]
          /\ \E p \in 0..Len(text) : RefOccursAt(tokens[i], p)
          /\ token_offset_mapping[j][1] < token_offset_mapping[j][2]

----------------------------------------------------------------------------
(* Claims on the prepared target vocabulary *)

RefStrictlySorted(q) ==
    \A i \in 1..(Len(q) - 1) : LabelRank(q[i]) < LabelRank(q[i + 1])
RefDocumentLabels(layer_name) ==
    {l \in Range(LabelOrder) : \E d \in DOMAIN documents : l \in documents[d][layer_name]}
RefVocabularyDistinct(q) ==
    \A i, j \in DOMAIN q : i # j => q[i] # q[j]
RefVocabularyOf(span_labels, relation_labels) ==
    <<bos_token, eos_token, none_label>> \o span_labels \o relation_labels

\* C14: after a successful preparation the targets are [bos, eos, none_label],
\* the sorted span labels, then the sorted relation labels; they are pairwise
\* distinct, the id of every target is its index (bos 0, eos 1, none 2),
\* pointer_offset is the number of targets, and preparation raises exactly
\* when the targets would not be distinct.
C14_VocabularyDistinct ==
    /\ pc = "prepared" =>
          /\ targets = RefVocabularyOf(labels_per_layer[span_layer_name],
                                       labels_per_layer[relation_layer_name])
          /\ \A layer_name \in Range(layer_names) :
                /\ RefStrictlySorted(labels_per_layer[layer_name])
                /\ Range(labels_per_layer[layer_name]) = RefDocumentLabels(layer_name)
          /\ RefVocabularyDistinct(targets)
          /\ \A k \in DOMAIN targets : target2id(targets[k]) = k - 1
          /\ bos_id = 0 /\ eos_id = 1 /\ none_id = 2
          /\ pointer_offset = Len(targets)
    /\ pc = "prepare_raised" =>
          ~RefVocabularyDistinct(
              RefVocabularyOf(labels_per_layer[span_layer_name],
                              labels_per_layer[relation_layer_name]))

----------------------------------------------------------------------------
(* Claims on the rows of the constraint matrix *)

RefPointerIds == pointer_offset..(input_len + pointer_offset - 1)

----------------------------------------------------------------------------
(* Claims on the target sequence of encode_annotations (checked under SpecTask) *)

RefTupleCount(ids) == (Len(ids) - 1) \div 7
RefTuple(ids, a) == SubSeq(ids, 7 * a - 6, 7 * a)
\* tuples are tail first; a loop tuple has none ids in place of the head
RefTailStart(t) == t[1]
RefHeadStart(t) == IF t[7] = none_id THEN t[1] ELSE t[4]
RefSrcLeq(t, u) ==
    \/ RefHeadStart(t) < RefHeadStart(u)
    \/ RefHeadStart(t) = RefHeadStart(u) /\ RefTailStart(t) <= RefTailStart(u)

RefLoopTuple(sp) ==
    <<sp.start + pointer_offset, sp.end - 1 + pointer_offset, target2id(sp.label),
      none_id, none_id, none_id, none_id>>
RefEncodedRelations(doc) ==
    {r \in Range(doc.binary_relations) :
        r.label \in Range(labels_per_layer[relation_layer_name])}
RefFreeSpans(doc) ==
    {sp \in Range(doc.labeled_spans) :
        \A r \in RefEncodedRelations(doc) : sp # r.head /\ sp # r.tail}
RefLoopTuplesOf(doc, ids) ==
    /\ \A sp \in Range(doc.labeled_spans) :
          Cardinality({a \in 1..RefTupleCount(ids) : RefTuple(ids, a) = RefLoopTuple(sp)})
              = IF sp \in RefFreeSpans(doc) THEN 1 ELSE 0
    /\ \A a \in 1..RefTupleCount(ids) :
          RefTuple(ids, a)[7] = none_id =>
              \E sp \in RefFreeSpans(doc) : RefTuple(ids, a) = RefLoopTuple(sp)
    /\ RefTupleCount(ids)
           = Cardinality(RefEncodedRelations(doc)) + Cardinality(RefFreeSpans(doc))
RefLoopTuplesStep ==
    (/\ pc \in {"encode_targets", "encode_targets_again"}
     /\ <<pc, cursor>>' # <<pc, cursor>>
     /\ ~task_targets'[cursor].is_none) =>
        RefLoopTuplesOf(task_encodings[cursor], task_targets'[cursor].value.labels)

\* C17: a target built by encode_target holds exactly one loop tuple (the
\* triple of the span, then four none ids) for every span of the span layer
\* that is neither head nor tail of a relation with a prepared label, and no
\* loop tuple for any other span; a relation with a label that is not
\* prepared gives no tuple and leaves its arguments to loop tuples.
C17_LoopTuplesForFreeSpans == [][RefLoopTuplesStep]_vars

\* reached: the first pass built the target of a document of two spans and a
\* relation between them with a label that is not prepared: two loop tuples
C17_Witness ==
    /\ pc = "create_annotations"
    /\ cursor = 1
    /\ \E i \in DOMAIN task_targets :
          /\ ~task_targets[i].is_none
          /\ Len(task_encodings[i].labeled_spans) = 2
          /\ \E r \in Range(task_encodings[i].binary_relations) :
                /\ r.label \notin Range(labels_per_layer[relation_layer_name])
                /\ r.head # r.tail
          /\ RefTupleCount(task_targets[i].value.labels) = 2
          /\ RefLoopTuplesOf(task_encodings[i], task_targets[i].value.labels)

----------------------------------------------------------------------------
(* Claims on collate and unbatch_output *)

RefEosOnlyLast(ids) ==
    /\ ids # <<>>
    /\ ids[Len(ids)] = eos_id
    /\ \A k \in 1..(Len(ids) - 1) : ids[k] # eos_id
RefCutAfterFirstEos(row, out) ==
    IF \E j \in DOMAIN row : row[j] = eos_id
    THEN /\ out # <<>>
         /\ out = SubSeq(row, 1, Len(out))
         /\ out[Len(out)] = eos_id
         /\ \A k \in 1..(Len(out) - 1) : out[k] # eos_id
    ELSE out = row

\* C18: unbatch_output on the label tensor of collate, rows padded with the
\* eos id, returns for every batch item whose label sequence has the eos id
\* only as its last element exactly that sequence; every row is cut just
\* after its first eos id, and a row without eos id is kept whole.
C18_UnbatchInvertsCollate ==
    /\ pc \in {"unbatch_output", "unbatched"} =>
          /\ Len(model_output) = Len(task_targets)
          /\ \A i, j \in DOMAIN model_output : Len(model_output[i]) = Len(model_output[j])
          /\ \A i \in DOMAIN model_output :
                LET ids == task_targets[i].value.labels
                IN  /\ SubSeq(model_output[i], 1, Len(ids)) = ids
                    /\ \A k \in (Len(ids) + 1)..Len(model_output[i]) :
                          model_output[i][k] = eos_id
          /\ \E i \in DOMAIN model_output :
                Len(model_output[i]) = Len(task_targets[i].value.labels)
    /\ pc = "unbatched" =>
          /\ Len(task_outputs) = Len(task_targets)
          /\ \A i \in DOMAIN task_outputs :
                /\ RefCutAfterFirstEos(model_output[i], task_outputs[i].labels)
                /\ RefEosOnlyLast(task_targets[i].value.labels) =>
                       task_outputs[i].labels = task_targets[i].value.labels

\* reached: a batch of two label sequences ending with their only eos id, the
\* shorter one padded, both returned as they were
C18_Witness ==
    /\ pc = "unbatched"
    /\ Len(task_targets) = 2
    /\ \A i \in DOMAIN task_targets : RefEosOnlyLast(task_targets[i].value.labels)
    /\ Len(task_targets[1].value.labels) < Len(task_targets[2].value.labels)
    /\ Len(model_output[1]) = Len(model_output[2])
    /\ \A i \in DOMAIN task_targets : task_outputs[i].labels = task_targets[i].value.labels

----------------------------------------------------------------------------
(* Claims on decode_annotations *)

RefIsLoop(rel) == rel.label = loop_dummy_relation_name
\* the places where a span is an argument of the decoded relations D:
\* <<k, "head">>, and <<k, "tail">> for a relation that is no loop
RefArguments(D) ==
    {<<k, "head">> : k \in DOMAIN D}
    \cup {<<k, "tail">> : k \in {j \in DOMAIN D : ~RefIsLoop(D[j])}}
RefArgument(D, a) == IF a[2] = "head" THEN D[a[1]].head ELSE D[a[1]].tail
RefLabelCount(D, key, l) ==
    Cardinality({a \in RefArguments(D) :
                    SpanKey(RefArgument(D, a)) = key /\ RefArgument(D, a).label = l})
RefRelationTuples(D) == SelectSeq(D, LAMBDA r : ~RefIsLoop(r))
RefMerged(D, spans, relations) ==
    /\ \A i, j \in DOMAIN spans : SpanKey(spans[i]) = SpanKey(spans[j]) => i = j
    /\ {SpanKey(sp) : sp \in Range(spans)}
           = {SpanKey(RefArgument(D, a)) : a \in RefArguments(D)}
    /\ \A sp \in Range(spans) :
          /\ RefLabelCount(D, SpanKey(sp), sp.label) >= 1
          /\ \A l \in Range(labels_per_layer[span_layer_name]) :
                RefLabelCount(D, SpanKey(sp), sp.label) >= RefLabelCount(D, SpanKey(sp), l)
    /\ Len(relations) = Len(RefRelationTuples(D))
    /\ \A k \in DOMAIN relations :
          /\ relations[k].head \in Range(spans)
          /\ relations[k].tail \in Range(spans)
          /\ SpanKey(relations[k].head) = SpanKey(RefRelationTuples(D)[k].head)
          /\ SpanKey(relations[k].tail) = SpanKey(RefRelationTuples(D)[k].tail)
          /\ relations[k].label = RefRelationTuples(D)[k].label
          /\ ~RefIsLoop(relations[k])

\* C19: decode_annotations returns one span for every (start, end) among the
\* arguments of the decoded relations and no other span; its label is one
\* that occurs most often for this (start, end); head and tail of the
\* returned relations are spans of the returned span layer with the (start,
\* end) of the decoded head and tail; a loop relation gives a span and no
\* relation.
C19_SpansMergedByMostCommonLabel ==
    pc = "decode_annotations_done" =>
        LET D == decode_relations(label_ids).encodings
        IN  RefMerged(D, decoded_annotations[span_layer_name],
                      decoded_annotations[relation_layer_name])

RefMergedExample(D) ==
    /\ Len(D) = 2
    /\ ~RefIsLoop(D[1])
    /\ RefIsLoop(D[2])
    /\ SpanKey(D[1].head) = SpanKey(D[1].tail)
    /\ D[1].head.label = "person"
    /\ D[1].tail.label = "content"
    /\ D[2].head = D[1].tail
    /\ decoded_annotations[span_layer_name] = <<D[1].tail>>
    /\ Len(decoded_annotations[relation_layer_name]) = 1

\* reached: a span decoded once as head with one label and twice, as tail and
\* in a loop relation, with another label, which it gets; one relation
C19_Witness ==
    /\ pc = "decode_annotations_done"
    /\ LET D == decode_relations(label_ids).encodings
       IN  RefMergedExample(D)

----------------------------------------------------------------------------
(* Claims on the rows of _build_constraint by the length of the prefix *)

RefAllowed == {k \in DOMAIN constraint : constraint[k] = 1}
RefIsPointer(id) == id >= pointer_offset
RefFixedIds == 0..(pointer_offset - 1)
RefRowReturned == pc \in {"build_constraint_done", "prefix_allowed_tokens_done"}

RefS1 == remaining[1]
RefE1 == remaining[2]
RefS2 == remaining[4]
RefSecondEndPrefix ==
    /\ RefRowReturned
    /\ Len(remaining) = 4
    /\ eos_id \notin Range(remaining)
    /\ none_id \notin Range(remaining)
    /\ RefIsPointer(RefS1) /\ RefIsPointer(RefE1) /\ RefIsPointer(RefS2)
\* the pointer ids from s2 on, outside [s1, e1] and, when s1 > s2, not
\* greater than e1
RefSecondEndAllowed ==
    {p \in RefPointerIds :
        /\ p >= RefS2
        /\ ~(RefS1 <= p /\ p <= RefE1)
        /\ RefS1 > RefS2 => p <= RefE1}

RefEosGenerated == eos_id \in Range(Tail(input_ids))

\* C24: a prefix with the eos id gets a row that allows exactly the padding
\* id, which is the eos id, whatever its length and other ids; the callback
\* of the generation hands _build_constraint a leftover that still holds the
\* eos id at every step after the first eos id, so its mask is the padding id.
C24_EosForcesPad ==
    /\ target_pad_id = eos_id
    /\ (RefRowReturned /\ eos_id \in Range(remaining)) => RefAllowed = {target_pad_id}
    /\ (pc = "prefix_allowed_tokens_done" /\ RefEosGenerated) =>
          /\ eos_id \in Range(remaining)
          /\ RefAllowed = {target_pad_id}
          /\ _prefix_allowed_tokens_fn_with_maximum(input_ids, input_len + pointer_offset)
                = {target_pad_id}

\* reached: the mask of the callback for a complete tuple, the eos id and one
\* more id
C24_Witness ==
    /\ pc = "prefix_allowed_tokens_done"
    /\ Len(input_ids) = 10
    /\ input_ids[9] = eos_id
    /\ remaining = <<eos_id>>
    /\ RefAllowed = {eos_id}

----------------------------------------------------------------------------
(* Claims that relate the rows of build_constraints, the masks of the
   generation callback and the tuple grammar *)

\* a tuple of 7 ids over the input: a first span with its label, then either
\* none ids or a second span disjoint from the first with its label and a
\* relation label
RefWellFormedTuple(t) ==
    /\ Len(t) = 7
    /\ t[1] \in RefPointerIds /\ t[2] \in RefPointerIds
    /\ t[2] >= t[1]
    /\ t[3] \in span_ids
    /\ IF t[4] = none_id
       THEN \A k \in 5..7 : t[k] = none_id
       ELSE /\ t[4] \in RefPointerIds /\ t[5] \in RefPointerIds
            /\ t[5] >= t[4]
            /\ (t[5] < t[1] \/ t[4] > t[2])
            /\ t[6] \in span_ids
            /\ t[7] \in relation_ids

RefWellFormedTarget(ids) ==
    /\ Len(ids) % 7 = 1
    /\ ids[Len(ids)] = eos_id
    /\ \A a \in 1..RefTupleCount(ids) : RefWellFormedTuple(RefTuple(ids, a))

\* C25: for a target of well-formed tuples and the final eos, every row of
\* build_constraints before the eos row allows exactly the ids that the
\* generation callback returns for bos + target_ids[:i] with
\* maximum = input_len + pointer_offset.
C25_TrainingRowsEqualGenerationMasks ==
    (pc = "bc_done" /\ RefWellFormedTarget(target_ids)) =>
        \A i \in 0..(Len(target_ids) - 2) :
            AllowedIndices(constraints[i + 1]) =
                _prefix_allowed_tokens_fn_with_maximum(
                    <<bos_id>> \o SubSeq(target_ids, 1, i), input_len + pointer_offset)

\* reached: a matrix for two well-formed tuples, the second with a relation
C25_Witness ==
    /\ pc = "bc_done"
    /\ RefWellFormedTarget(target_ids)
    /\ Len(target_ids) = 15
    /\ target_ids[14] \in relation_ids
    /\ AllowedIndices(constraints[12]) =
          _prefix_allowed_tokens_fn_with_maximum(
              <<bos_id>> \o SubSeq(target_ids, 1, 11), input_len + pointer_offset)
    /\ AllowedIndices(constraints[12]) # {}

\* the ids generated so far, and those before the first eos id
RefGenerated == Tail(input_ids)
RefBeforeEos ==
    IF eos_id \in Range(RefGenerated)
    THEN SubSeq(RefGenerated, 1,
                (CHOOSE k \in 1..Len(RefGenerated) :
                    /\ RefGenerated[k] = eos_id
                    /\ \A j \in 1..(k - 1) : RefGenerated[j] # eos_id) - 1)
    ELSE RefGenerated

\* the callback has returned the mask of the prefix
RefMaskReturned == pc = "prefix_allowed_tokens_done"

\* an id is appended: without an eos id in the prefix the leftover of the new
\* prefix is one longer, or empty again behind a leftover of length 6
C26_LeftoverStep ==
    (RefMaskReturned /\ input_ids' # input_ids /\ eos_id \notin Range(input_ids')) =>
        Len(RemainingOf(input_ids')) = (Len(remaining) + 1) % 7

----------------------------------------------------------------------------
(* Claims on the constraints of gold targets (checked under SpecGoldConstraints) *)

\* two token spans with exclusive ends share a token
RefShareToken(h, t) == h.start < t.end /\ t.start < h.end
RefInsideInput(doc) ==
    \A sp \in Range(doc.labeled_spans) : sp.end <= Len(doc.token_offset_mapping)
\* the target ids that encode_annotations hands to build_constraints
RefGoldTargetIds(doc) ==
    TargetIds(SortedRelations(RelationEncodingItems(
        DictKeys(PreparedRelations(doc) \o DummyRelations(doc, PreparedRelations(doc))))))
RefGoldEncoded == pc = "create_annotations" /\ create_constraints /\ Len(task_encodings) = 1

\* C28: with create_constraints the target of a gold document whose encoded
\* relations have a head and a tail without a common token, inside the input,
\* comes with one constraint row per id; if an encoded relation has
\* overlapping, nested or equal head and tail, build_constraints raises on
\* the check of a chosen id (the target ends with eos and has a multiple of 7
\* ids before it) and encode_target returns None.
C28_GoldConstraintsNeedDisjointArguments ==
    RefGoldEncoded =>
        LET doc == task_encodings[1]
            ids == RefGoldTargetIds(doc)
            built == build_constraints(Len(doc.token_offset_mapping), ids)
        IN  /\ (RefInsideInput(doc)
                /\ \A r \in RefEncodedRelations(doc) : ~RefShareToken(r.head, r.tail)) =>
                  /\ ~built.raised
                  /\ ~task_targets[1].is_none
                  /\ task_targets[1].value.labels = ids
                  /\ ~task_targets[1].value.constraints.is_none
                  /\ task_targets[1].value.constraints.value = built.value
                  /\ Len(built.value) = Len(ids)
            /\ (\E r \in RefEncodedRelations(doc) : RefShareToken(r.head, r.tail)) =>
                  /\ built.raised
                  /\ EndsWithEos(ids)
                  /\ LengthAccepted(SubSeq(ids, 1, Len(ids) - 1))
                  /\ task_targets[1].is_none

\* reached: no target for a relation whose tail lies inside its head, and for
\* one whose head and tail overlap without being nested
C28_Witness ==
    /\ RefGoldEncoded
    /\ task_targets[1].is_none
    /\ \E r \in RefEncodedRelations(task_encodings[1]) :
          /\ RefShareToken(r.head, r.tail)
          /\ r.head # r.tail
          /\ r.head.start < r.tail.start
          /\ r.tail.start < r.head.end
          /\ r.head.end < r.tail.end

----------------------------------------------------------------------------
(* Claims on SimplePointerNetworkModel.predict (checked under SpecModel) *)

\* a call of predict begins: generate is reached from outside
RefPredictCalled == pc = "idle" /\ pc' = "generate"
\* predict returns to its caller
RefPredictReturned == pc = "generate" /\ pc' = "idle"

\* the flag that predict found is kept while generate runs, and the module
\* is then in evaluation mode
RefFlagSaved == RefPredictCalled => (is_training' = training /\ ~training')
\* after the return the module is in training mode iff it was before the call
RefFlagRestored == RefPredictReturned => (training' = is_training)
\* a step that does not call predict leaves the flag alone
RefStepKeepsFlag ==
    (pc = "idle" /\ pc' = "idle" /\ <<stage, batch_idx>>' # <<stage, batch_idx>>) =>
        training' = training

\* C30: generate runs with the module in evaluation mode, and when predict
\* returns the module is in training mode iff it was when predict was
\* called, whether predict is called directly or from a step, in any sequence
\* of calls; a step without predict does not touch the flag.
C30_PredictRestoresTrainingFlag ==
    /\ [](pc = "generate" => ~training)
    /\ [][RefFlagSaved]_vars
    /\ [][RefFlagRestored]_vars
    /\ [][RefStepKeepsFlag]_vars

\* reached: a validation step called predict in training mode and predict
\* returned with the module in training mode again
C30_Witness ==
    /\ pc = "idle"
    /\ stage = STAGE_VAL
    /\ UsesPredict(stage, batch_idx)
    /\ is_training
    /\ training

----------------------------------------------------------------------------
(* Claims on the bookkeeping of decode_relations (checked under SpecDecode) *)

RECURSIVE RefSum(_, _)
RefSum(f, S) ==
    IF S = {} THEN 0
    ELSE LET k == CHOOSE x \in S : TRUE IN f[k] + RefSum(f, S \ {k})

\* the position of the last close among the first p ids and the number of
\* closes among them, by one pass from position k with the last close at q
\* and n closes so far
RECURSIVE RefScan(_, _, _, _, _)
RefScan(ids, p, k, q, n) ==
    IF k > p THEN <<q, n>>
    ELSE IF RefCloses(ids, k, q) THEN RefScan(ids, p, k + 1, k, n + 1)
    ELSE RefScan(ids, p, k + 1, q, n)
RefClosedUpTo(ids, p) == RefScan(ids, p, 1, 0, 0)

\* one iteration: the id is appended to the open tuple, or the open tuple with
\* the id is closed and counted once, as a relation or as an error
RefDecodeIteration ==
    (pc = "decode_loop" /\ pos' = pos + 1) =>
        LET closed == Append(current_encoding, label_ids[pos + 1])
        IN  \/ /\ current_encoding' = closed
               /\ errors' = errors
               /\ encodings' = encodings
            \/ /\ current_encoding' = <<>>
               /\ closed = SubSeq(label_ids, pos + 2 - Len(closed), pos + 1)
               /\ \E k \in ErrorKeys :
                     /\ errors' = [errors EXCEPT ![k] = @ + 1]
                     /\ IF k = KEY_INVALID_CORRECT
                        THEN encodings' = Append(encodings, RelationDecode(closed).value)
                        ELSE encodings' = encodings

\* C29: decode_relations loses and duplicates no id: the ids consumed so far
\* are the closed tuples, one after the other, followed by the open tuple,
\* which is returned as the leftover; the relations returned are as many as
\* the 'correct' count and the counts of the error dictionary sum to the
\* number of closed tuples.
C29_DecodeKeepsEveryId ==
    /\ [](pc \in {"decode_loop", "decode_done"} =>
            /\ \E c \in {RefClosedUpTo(label_ids, pos)} :
                  /\ SubSeq(label_ids, 1, c[1]) \o current_encoding
                        = SubSeq(label_ids, 1, pos)
                  /\ RefSum(errors, ErrorKeys) = c[2]
            /\ Len(encodings) = errors[KEY_INVALID_CORRECT])
    /\ [](pc = "decode_done" => pos = Len(label_ids))
    /\ [][RefDecodeIteration]_vars

\* reached: a returned result with a decoded tuple, a tuple counted as an
\* error and a leftover
C29_Witness ==
    /\ pc = "decode_done"
    /\ Len(encodings) = 1
    /\ RefSum(errors, ErrorKeys) = 2
    /\ current_encoding # <<>>
    /\ Len(label_ids) > 14

====
